---------------------------- MODULE Spec2Model ----------------------------
(***************************************************************************)
(* A model of the genetic-programming core of SoLUSH-3 (offchain crate):   *)
(* the UntypedAst program tree, its bytecode encoding                      *)
(* (compiler/ast.rs), the random generator (gp/generate_spec.rs), the      *)
(* structural operators (gp/mutation.rs) and the population manager        *)
(* (gp/population_management.rs).                                          *)
(*                                                                         *)
(* The operations are pure functions of their arguments (and of the random *)
(* source, modelled as nondeterministic choice).  Each specification draws *)
(* the arguments from bounded sets in its initial states and applies the   *)
(* operations as actions; the variables record the last call, its          *)
(* arguments and what it returned.                                         *)
(***************************************************************************)
EXTENDS Integers, Sequences, FiniteSets, TLC

VARIABLES
    call,         \* name of the last operation applied ("none" before any)
    tree,         \* the tree the operation was applied to (self / original / ast)
    chosen_path,  \* the Path argument (0-based child indices, as in the source)
    new_subtree,  \* the replacement argument of replace_subtree
    result,       \* the tree replace_subtree / random_code returned
                  \* (NoTree before the call, Panicked when it panicked)
    subtree,      \* the tree get_subtree returned (NoTree before the call)
    paths,        \* the Vec<Path> returned by enum_nodes_dfs
    bytes,        \* the Vec<u8> returned by to_bytecode
    outcome,      \* "ok": returned; "panic": the call panicked;
                  \* "no_wire_byte": the opcode has no arm in to_bytecode
    max_points,   \* the max_points argument of random_code
    actual_points,\* the budget random_code passed to random_code_with_size
    tree_b,       \* the second tree argument (b of a crossover or a distance)
    result_b,     \* the second tree a crossover returned
    rate,         \* the mutation_rate argument, in hundredths
    size_cap,     \* the max_size argument of size_limited_mutate, which is
                  \* the target_size of every shrink_ast activation
    shrink_arg,   \* the ast argument of the innermost shrink_ast activation
    depth,        \* the number of shrink_ast activations on the stack
    removals,     \* the number of children shrink_ast has removed so far
    chosen_pair,  \* the (idx_a, idx_b) a crossover chose
    population,   \* the population the manager operates on (a Vec<Individual>)
    prior,        \* the population as it was when the operation was called
    returned,     \* the value the operation returned (NoValue: nothing yet)
    returned_rev, \* the value returned with the two arguments exchanged
    count_arg,    \* the usize argument (elite_count / tournament_size)
    real_arg,     \* the f64 argument (min_distance / sigma / diversity_weight)
    selected,     \* the positions in `prior` (0-based) of the individuals the
                  \* operation selected or removed, in the order it took them
    overflow_checks, \* whether the build checks integer overflow (debug) or
                  \* wraps (release)
    gen,          \* the generation the loop of the advanced driver is in
    new_population, \* the next generation while it is being filled
    stagnation_count, \* generations in a row whose best fitness moved by
                  \* less than 1.0
    best_fitness_history \* the best fitness of every generation so far

\* The variables of the structural operators, the encoder and the generator.
treeVars == <<chosen_path, new_subtree, result, subtree, paths>>

encVars == <<bytes>>

genVars == <<max_points, actual_points>>

\* The variables of the mutation / crossover operators and of the
\* population manager.
mutVars == <<tree_b, result_b, rate, size_cap, shrink_arg, depth, removals,
             chosen_pair>>

popVars == <<population, prior, returned, returned_rev, count_arg, real_arg,
             selected, overflow_checks>>

\* The variables of the generation loop of the advanced driver.
loopVars == <<gen, new_population, stagnation_count, best_fitness_history>>

vars == <<call, tree, outcome, treeVars, encVars, genVars, mutVars, popVars,
          loopVars>>

\* The values the variables hold while the operations that write them have
\* not been called.
NoTree == [kind |-> "None"]

TreeIdle ==
    /\ chosen_path = <<>>
    /\ new_subtree = NoTree
    /\ result = NoTree
    /\ subtree = NoTree
    /\ paths = <<>>

EncIdle == bytes = <<>>

GenIdle == max_points = 0 /\ actual_points = 0

\* The value `returned` holds while nothing has been returned.
NoValue == [kind |-> "NoValue"]

MutIdle ==
    /\ tree_b = NoTree
    /\ result_b = NoTree
    /\ rate = 0
    /\ size_cap = 0
    /\ shrink_arg = NoTree
    /\ depth = 0
    /\ removals = 0
    /\ chosen_pair = <<>>

LoopIdle ==
    /\ gen = 0
    /\ new_population = <<>>
    /\ stagnation_count = 0
    /\ best_fitness_history = <<>>

PopIdle ==
    /\ population = <<>>
    /\ prior = <<>>
    /\ returned = NoValue
    /\ returned_rev = NoValue
    /\ count_arg = 0
    /\ real_arg = NoValue
    /\ selected = <<>>
    /\ overflow_checks = FALSE

(***************************************************************************)
(* UntypedAst (compiler/ast.rs).                                           *)
(***************************************************************************)
IntLiteral(v) == [kind |-> "IntLiteral", val |-> v]

Instruction(o) == [kind |-> "Instruction", op |-> o]

Sublist(cs) == [kind |-> "Sublist", children |-> cs]

\* The value a call that panicked leaves behind (it returns nothing).
Panicked == [kind |-> "Panic"]

\* enum OpCode: the six variants the enum declares.
OpCode == {"Noop", "Plus", "Minus", "Mult", "Dup", "Pop"}

\* i32::MAX and i32::MIN (IntLiteral carries an i32).
MaxI32 == 2147483647

MinI32 == (-MaxI32) - 1

\* u16::MAX + 1: the modulus of the `as u16` cast.
U16Modulus == 2^16

(***************************************************************************)
(* Tree size (gp/mutation.rs, get_subtree_size).                           *)
(***************************************************************************)
\* s[lo] + ... + s[hi] (the iterator sum of get_subtree_size).
RECURSIVE SumRange(_, _, _)
SumRange(s, lo, hi) ==
    IF lo > hi THEN 0
    ELSE IF lo = hi THEN s[lo]
    ELSE LET mid == (lo + hi) \div 2
         IN  SumRange(s, lo, mid) + SumRange(s, mid + 1, hi)

SumSeq(s) == SumRange(s, 1, Len(s))

RECURSIVE get_subtree_size(_)
get_subtree_size(ast) ==
    IF ast.kind = "Sublist"
    THEN 1 + SumSeq([i \in 1..Len(ast.children) |->
                        get_subtree_size(ast.children[i])])
    ELSE 1

(***************************************************************************)
(* Bytecode encoding (compiler/ast.rs, impl Push3Ast for UntypedAst).      *)
(***************************************************************************)
\* n as `width` big-endian bytes, n in 0 .. 256^width - 1.
BeBytes(n, width) == [i \in 1..width |-> (n \div (256 ^ (width - i))) % 256]

\* A faulty variant of to_be_bytes_i32: the bytes in little-endian order (what
\* the comment above the IntLiteral arm says, and i32::to_le_bytes does).
\* See to_be_bytes_i32 for the arithmetic.
\*
\* i32::to_be_bytes: the two's-complement image of val, most significant
\* byte first.  For val < 0 the image is val + 2^32; its low 31 bits are
\* val + 2^31 and its top bit is set.
to_be_bytes_i32_LittleEndian(val) ==
    LET low31 == IF val < 0 THEN (val + MaxI32) + 1 ELSE val
        top   == (low31 \div (2^24)) + (IF val < 0 THEN 128 ELSE 0)
        be    == <<top>> \o BeBytes(low31 % (2^24), 3)
    IN  [i \in 1..4 |-> be[5 - i]]

to_be_bytes_i32(val) ==
    LET low31 == IF val < 0 THEN (val + MaxI32) + 1 ELSE val
        top   == (low31 \div (2^24)) + (IF val < 0 THEN 128 ELSE 0)
    IN  <<top>> \o BeBytes(low31 % (2^24), 3)

\* `payload.len() as u16`: the cast keeps the low 16 bits and never panics.
as_u16(n) == n % U16Modulus

\* u16::to_be_bytes.
to_be_bytes_u16(n) == BeBytes(n, 2)

\* The match on OpCode inside to_bytecode: one arm per variant of the enum.
\* An opcode name that is no variant of the enum has no arm: NoByte.
NoByte == -1

\* A faulty variant of opcode_byte: Minus given Plus's wire code.
opcode_byte_DuplicateCode(op) ==
    CASE op = "Noop"  -> 0
      [] op = "Plus"  -> 1
      [] op = "Minus" -> 1
      [] op = "Mult"  -> 5
      [] op = "Dup"   -> 6
      [] op = "Pop"   -> 7
      [] OTHER        -> NoByte

opcode_byte(op) ==
    CASE op = "Noop"  -> 0
      [] op = "Plus"  -> 1
      [] op = "Minus" -> 4
      [] op = "Mult"  -> 5
      [] op = "Dup"   -> 6
      [] op = "Pop"   -> 7
      [] OTHER        -> NoByte

\* The concatenation ss[lo] \o ... \o ss[hi], in order: what the loop
\* `for child in children { payload.extend(child.to_bytecode()) }` builds.
RECURSIVE ConcatRange(_, _, _)
ConcatRange(ss, lo, hi) ==
    IF lo > hi THEN <<>>
    ELSE IF lo = hi THEN ss[lo]
    ELSE LET mid == (lo + hi) \div 2
         IN  ConcatRange(ss, lo, mid) \o ConcatRange(ss, mid + 1, hi)

RECURSIVE to_bytecode(_)
to_bytecode(ast) ==
    CASE ast.kind = "IntLiteral" ->
            <<2>> \o to_be_bytes_i32(ast.val)
      [] ast.kind = "Instruction" ->
            IF opcode_byte(ast.op) = NoByte THEN <<>>
            ELSE <<opcode_byte(ast.op)>>
      [] ast.kind = "Sublist" ->
            LET encs    == [i \in 1..Len(ast.children) |->
                               to_bytecode(ast.children[i])]
                payload == ConcatRange(encs, 1, Len(encs))
                sub_len == as_u16(Len(payload))
            IN  <<3>> \o to_be_bytes_u16(sub_len) \o payload

\* Whether every opcode in the tree has an arm in to_bytecode's match.
RECURSIVE HasWireBytes(_)
HasWireBytes(ast) ==
    CASE ast.kind = "Instruction" -> opcode_byte(ast.op) # NoByte
      [] ast.kind = "Sublist" ->
            \A i \in 1..Len(ast.children) : HasWireBytes(ast.children[i])
      [] OTHER -> TRUE

(***************************************************************************)
(* Bounded universes of trees.                                             *)
(***************************************************************************)
\* All trees with exactly n nodes whose leaves are drawn from `leaves`
\* (an empty Sublist is a tree of one node).
RECURSIVE TreesOfSize(_, _), ChildSeqs(_, _)
TreesOfSize(n, leaves) ==
    (IF n = 1 THEN leaves ELSE {})
    \cup {Sublist(cs) : cs \in ChildSeqs(n - 1, leaves)}

\* All sequences of trees whose sizes sum to m.
ChildSeqs(m, leaves) ==
    IF m = 0 THEN {<<>>}
    ELSE UNION {{<<t>> \o rest : t \in TreesOfSize(k, leaves),
                                rest \in ChildSeqs(m - k, leaves)} : k \in 1..m}

TreesUpTo(n, leaves) == UNION {TreesOfSize(k, leaves) : k \in 1..n}

(***************************************************************************)
(* The default instruction set (gp/generate_spec.rs,                       *)
(* InstructionSet::new_default): 25 Opcode atoms and EphemeralInt.         *)
(***************************************************************************)
InstructionSetOpcodes ==
    <<"Noop", "Plus", "Minus", "Mult", "Dup", "Pop",
      "GreaterThan", "LessThan", "Equal", "NotEqual", "GreaterEqual",
      "LessEqual",
      "Sin", "Cos", "Sqrt", "Abs", "Mod", "Pow",
      "ConstPi", "ConstE", "ConstRand",
      "BoolToInt", "IntToBool",
      "IfThen", "IfElse">>

\* atoms[idx], idx 0-based as in the source; the last atom is EphemeralInt.
new_default ==
    [i \in 1..(Len(InstructionSetOpcodes) + 1) |->
        IF i <= Len(InstructionSetOpcodes)
        THEN [atom |-> "Opcode", op |-> InstructionSetOpcodes[i]]
        ELSE [atom |-> "EphemeralInt", op |-> "none"]]

\* rng.gen_range(-30..30): the values an ephemeral literal can take.
EphemeralRange == (-30)..29

\* random_atom_as_ast with the rng's two draws made explicit: idx is
\* gen_range(0..atoms.len()), val is gen_range(-30..30) (used only by
\* EphemeralInt).
random_atom_as_ast(idx, val) ==
    IF new_default[idx + 1].atom = "Opcode"
    THEN Instruction(new_default[idx + 1].op)
    ELSE IntLiteral(val)

\* Every tree random_atom_as_ast can return.
AtomAsts ==
    {random_atom_as_ast(idx, val) :
        idx \in 0..(Len(new_default) - 1), val \in EphemeralRange}

(***************************************************************************)
(* Specification SpecEnc: to_bytecode applied to a bounded set of trees.   *)
(***************************************************************************)
\* Bound: the node count of the exhaustively enumerated small programs.
MaxEncNodes == 4

\* i32 values whose bytes exercise every byte position, the sign bit and
\* the tag values 0x02 / 0x03 inside a literal's payload.
I32Samples ==
    {0, 1, -1, 2, 3, 127, 128, 255, 256, 258, -256, 65535, 65536, -65536,
     16909060, -16909060, 33751811, 50462978, MaxI32, MaxI32 - 1,
     MinI32, MinI32 + 1}

EncLeaves == {IntLiteral(3), Instruction("Noop"), Instruction("Plus")}

SmallPrograms == TreesUpTo(MaxEncNodes, EncLeaves)

\* The least number of IntLiteral children (5 bytes each) whose payload no
\* longer fits the 16-bit length field.
OverflowCount == ((U16Modulus - 1) \div 5) + 1

Repeat(n, t) == Sublist([i \in 1..n |-> t])

\* Payloads of 65535 bytes (the largest that fits), 65536 and 65540 bytes,
\* and an oversized Sublist nested in another.
BigPrograms ==
    {Repeat(OverflowCount - 1, IntLiteral(0)),
     Sublist([i \in 1..OverflowCount |->
                 IF i = 1 THEN Instruction("Noop") ELSE IntLiteral(0)]),
     Repeat(OverflowCount, IntLiteral(0)),
     Sublist(<<Repeat(OverflowCount, IntLiteral(0)), Instruction("Pop")>>)}

\* UntypedAst values: every opcode is a variant of OpCode.
EncPrograms ==
    SmallPrograms
    \cup {IntLiteral(v) : v \in I32Samples}
    \cup {Instruction(o) : o \in OpCode}
    \cup BigPrograms

\* The encoder's inputs: programs, and every atom the generator can emit.
EncInputs == EncPrograms \cup AtomAsts

InitEnc ==
    /\ call = "none"
    /\ tree \in EncInputs
    /\ outcome = "none"
    /\ TreeIdle /\ EncIdle /\ GenIdle /\ MutIdle /\ PopIdle /\ LoopIdle

\* bytes = tree.to_bytecode()
ToBytecode ==
    /\ call = "none"
    /\ call' = "to_bytecode"
    /\ bytes' = to_bytecode(tree)
    /\ outcome' = IF HasWireBytes(tree) THEN "ok" ELSE "no_wire_byte"
    /\ UNCHANGED <<tree, treeVars, genVars, mutVars, popVars, loopVars>>

NextEnc == ToBytecode

SpecEnc == InitEnc /\ [][NextEnc]_vars

(***************************************************************************)
(* The random generator (gp/generate_spec.rs).  The random source is a     *)
(* nondeterministic choice: each operator is the set of values the code    *)
(* can return over all sequences of draws.                                 *)
(***************************************************************************)
\* Bound: the largest max_points / points budget explored.
MaxPoints == 5

\* The draws of gen_range(0..atoms.len()) explored: an opcode the encoder
\* maps (Noop), one it does not (GreaterThan) and EphemeralInt (the last).
RngAtomIdx == {0, 6, Len(new_default) - 1}

\* The draws of gen_range(-30..30) explored: both ends of the range.
RngEphemeral == {-30, 29}

\* decompose(rng, number, max_parts): every Vec the draws can produce.
RECURSIVE decompose(_, _)
decompose(number, max_parts) ==
    IF number = 1 \/ max_parts = 1
    THEN {<<number>>}
    ELSE UNION {{<<this_part>> \o remainder :
                    remainder \in decompose(number - this_part, max_parts - 1)} :
                this_part \in 1..(number - 1)}

\* sub_asts.shuffle(rng): every order of the children.
Shuffles(sub_asts) ==
    {[i \in 1..Len(sub_asts) |-> sub_asts[perm[i]]] :
        perm \in Permutations(1..Len(sub_asts))}

RECURSIVE random_code_with_size(_), SubAsts(_)

\* A faulty variant of random_code_with_size: the whole budget, not
\* points - 1, is decomposed among the children (the Sublist node itself is
\* not counted).
random_code_with_size_OffByOne(points) ==
    IF points = 1
    THEN {random_atom_as_ast(idx, val) : idx \in RngAtomIdx, val \in RngEphemeral}
    ELSE UNION {UNION {{Sublist(shuffled) : shuffled \in Shuffles(sub_asts)} :
                       sub_asts \in SubAsts(subpoints_list)} :
                subpoints_list \in decompose(points, points)}

\* random_code_with_size(rng, instr_set, points): every tree it can return.
random_code_with_size(points) ==
    IF points = 1
    THEN {random_atom_as_ast(idx, val) : idx \in RngAtomIdx, val \in RngEphemeral}
    ELSE UNION {UNION {{Sublist(shuffled) : shuffled \in Shuffles(sub_asts)} :
                       sub_asts \in SubAsts(subpoints_list)} :
                subpoints_list \in decompose(points - 1, points - 1)}

\* subpoints_list.into_iter().map(|sp| random_code_with_size(rng, .., sp)):
\* every Vec of children the map can collect.
SubAsts(subpoints_list) ==
    IF subpoints_list = <<>> THEN {<<>>}
    ELSE {<<t>> \o rest : t \in random_code_with_size(Head(subpoints_list)),
                          rest \in SubAsts(Tail(subpoints_list))}

(***************************************************************************)
(* Specification SpecGen: the generator's two entry points.                *)
(***************************************************************************)
InitGen ==
    /\ call = "none"
    /\ tree = NoTree
    /\ outcome = "none"
    /\ TreeIdle /\ EncIdle /\ MutIdle /\ PopIdle /\ LoopIdle
    /\ max_points \in 1..MaxPoints
    /\ actual_points = 0

\* result = random_code(rng, instr_set, max_points)
RandomCode ==
    /\ call = "none"
    /\ \E drawn \in 1..max_points :
          /\ actual_points' = drawn
          /\ result' \in random_code_with_size(drawn)
    /\ call' = "random_code"
    /\ outcome' = "ok"
    /\ UNCHANGED <<tree, chosen_path, new_subtree, subtree, paths, encVars,
                   max_points, mutVars, popVars, loopVars>>

\* result = random_code_with_size(rng, instr_set, max_points): the budget
\* is the argument itself.
RandomCodeWithSize ==
    /\ call = "none"
    /\ actual_points' = max_points
    /\ result' \in random_code_with_size(max_points)
    /\ call' = "random_code_with_size"
    /\ outcome' = "ok"
    /\ UNCHANGED <<tree, chosen_path, new_subtree, subtree, paths, encVars,
                   max_points, mutVars, popVars, loopVars>>

NextGen == RandomCode \/ RandomCodeWithSize

SpecGen == InitGen /\ [][NextGen]_vars

(***************************************************************************)
(* Path-addressed structural operators (gp/mutation.rs).  A Path is a      *)
(* sequence of 0-based child indices, as in the source; children[i] of the *)
(* source is children[i + 1] here.                                         *)
(***************************************************************************)
RECURSIVE dfs_helper(_, _)

\* A faulty variant of dfs_helper: a Sublist records its children's paths
\* but not its own.
dfs_helper_LeavesOnly(ast, current_path) ==
    IF ast.kind = "Sublist"
    THEN ConcatRange([i \in 1..Len(ast.children) |->
                         dfs_helper(ast.children[i],
                                    Append(current_path, i - 1))],
                     1, Len(ast.children))
    ELSE <<current_path>>

\* dfs_helper(ast, paths, current_path): the paths it pushes onto `paths`,
\* in the order it pushes them.
dfs_helper(ast, current_path) ==
    <<current_path>> \o
    (IF ast.kind = "Sublist"
     THEN ConcatRange([i \in 1..Len(ast.children) |->
                          dfs_helper(ast.children[i],
                                     Append(current_path, i - 1))],
                      1, Len(ast.children))
     ELSE <<>>)

enum_nodes_dfs(ast) == dfs_helper(ast, <<>>)

\* A faulty variant of replace_subtree: the indexed child is overwritten
\* with the replacement without descending along the rest of the path.
replace_subtree_NoDescent(original, path, replacement) ==
    IF path = <<>> THEN replacement
    ELSE IF original.kind = "Sublist"
    THEN IF path[1] >= Len(original.children)
         THEN Panicked
         ELSE Sublist([original.children EXCEPT ![path[1] + 1] = replacement])
    ELSE original

\* replace_subtree(original, path, replacement).  `children[first_idx]` is an
\* unchecked Vec index: out of range it panics, and the panic unwinds
\* through every enclosing call.
RECURSIVE replace_subtree(_, _, _)
replace_subtree(original, path, replacement) ==
    IF path = <<>> THEN replacement
    ELSE IF original.kind = "Sublist"
    THEN LET first_idx == path[1]
             tail_path == Tail(path)
         IN  IF first_idx >= Len(original.children)
             THEN Panicked
             ELSE LET new_child ==
                          replace_subtree(original.children[first_idx + 1],
                                          tail_path, replacement)
                  IN  IF new_child = Panicked
                      THEN Panicked
                      ELSE Sublist([original.children
                                       EXCEPT ![first_idx + 1] = new_child])
    ELSE original

\* A faulty variant of get_subtree: no range check before indexing, so an
\* out-of-range index panics.
RECURSIVE get_subtree_NoRangeCheck(_, _)
get_subtree_NoRangeCheck(original, path) ==
    IF path = <<>> THEN original
    ELSE IF original.kind = "Sublist"
    THEN IF path[1] >= Len(original.children)
         THEN Panicked
         ELSE get_subtree_NoRangeCheck(original.children[path[1] + 1],
                                       Tail(path))
    ELSE original

\* get_subtree(original, path).
RECURSIVE get_subtree(_, _)
get_subtree(original, path) ==
    IF path = <<>> THEN original
    ELSE IF original.kind = "Sublist"
    THEN LET first_idx == path[1]
             tail_path == Tail(path)
         IN  IF first_idx >= Len(original.children)
             THEN original
             ELSE get_subtree(original.children[first_idx + 1], tail_path)
    ELSE original

(***************************************************************************)
(* Specification SpecTree: enum_nodes_dfs, get_subtree and replace_subtree *)
(* applied to every tree of a bounded size with every path of a bounded    *)
(* length, valid or not; get_subtree is also applied to the tree           *)
(* replace_subtree returned, at the same path.                             *)
(***************************************************************************)
\* Bound: the node count of the trees explored.
MaxTreeNodes == 4

TreeLeaves == {IntLiteral(1), Instruction("Plus")}

TreeInputs == TreesUpTo(MaxTreeNodes, TreeLeaves)

\* All sequences over `indices` of length 0 .. n.
RECURSIVE SeqsUpTo(_, _)
SeqsUpTo(indices, n) ==
    IF n = 0 THEN {<<>>}
    ELSE LET shorter == SeqsUpTo(indices, n - 1)
         IN  shorter \cup {Append(p, i) : p \in shorter, i \in indices}

\* The Path arguments explored: a tree of n nodes has indices 0 .. n - 2 and
\* paths of length up to n - 1, so these are all its paths, and with them
\* paths that run into a leaf or past a Sublist's last child at every depth.
PathInputs == SeqsUpTo(0..(MaxTreeNodes - 2), MaxTreeNodes - 1)

\* The replacement arguments explored: none occurs in a TreeInputs tree.
Replacements ==
    {IntLiteral(7), Sublist(<<>>) , Sublist(<<Instruction("Dup"), IntLiteral(7)>>)}

InitTree ==
    /\ call = "none"
    /\ tree \in TreeInputs
    /\ outcome = "none"
    /\ TreeIdle /\ EncIdle /\ GenIdle /\ MutIdle /\ PopIdle /\ LoopIdle

\* paths = enum_nodes_dfs(&tree)
EnumNodesDfs ==
    /\ call = "none"
    /\ call' = "enum_nodes_dfs"
    /\ paths' = enum_nodes_dfs(tree)
    /\ outcome' = "ok"
    /\ UNCHANGED <<tree, chosen_path, new_subtree, result, subtree, encVars,
                   genVars, mutVars, popVars, loopVars>>

\* subtree = get_subtree(&tree, &p)
GetSubtree ==
    /\ call = "none"
    /\ \E p \in PathInputs :
          /\ chosen_path' = p
          /\ subtree' = get_subtree(tree, p)
    /\ call' = "get_subtree"
    /\ outcome' = IF subtree' = Panicked THEN "panic" ELSE "ok"
    /\ UNCHANGED <<tree, new_subtree, result, paths, encVars, genVars,
                   mutVars, popVars, loopVars>>

\* result = replace_subtree(&tree, &p, r)
ReplaceSubtree ==
    /\ call = "none"
    /\ \E p \in PathInputs, r \in Replacements :
          /\ chosen_path' = p
          /\ new_subtree' = r
          /\ result' = replace_subtree(tree, p, r)
    /\ call' = "replace_subtree"
    /\ outcome' = IF result' = Panicked THEN "panic" ELSE "ok"
    /\ UNCHANGED <<tree, subtree, paths, encVars, genVars, mutVars, popVars,
                   loopVars>>

\* subtree = get_subtree(&result, &chosen_path), after replace_subtree
\* returned result for the same path.
GetSubtreeOfResult ==
    /\ call = "replace_subtree"
    /\ outcome = "ok"
    /\ call' = "get_subtree(replace_subtree)"
    /\ subtree' = get_subtree(result, chosen_path)
    /\ outcome' = IF subtree' = Panicked THEN "panic" ELSE "ok"
    /\ UNCHANGED <<tree, chosen_path, new_subtree, result, paths, encVars,
                   genVars, mutVars, popVars, loopVars>>

NextTree == EnumNodesDfs \/ GetSubtree \/ ReplaceSubtree \/ GetSubtreeOfResult

SpecTree == InitTree /\ [][NextTree]_vars

(***************************************************************************)
(* Properties of the encoding, stated without the encoder: lengths and     *)
(* byte values are computed arithmetically from the tree.                  *)
(***************************************************************************)
\* The number of bytes the wire format takes for a tree: 5 for a literal,
\* 1 for an instruction, 3 + payload for a sublist.
RECURSIVE EncodedLen(_)
EncodedLen(t) ==
    CASE t.kind = "IntLiteral"  -> 5
      [] t.kind = "Instruction" -> 1
      [] t.kind = "Sublist" ->
            3 + SumSeq([i \in 1..Len(t.children) |-> EncodedLen(t.children[i])])

PayloadLen(t) == EncodedLen(t) - 3

\* Every Sublist of the tree has a payload the 16-bit length field can hold.
RECURSIVE FitsU16(_)
FitsU16(t) ==
    IF t.kind = "Sublist"
    THEN /\ PayloadLen(t) < U16Modulus
         /\ \A i \in 1..Len(t.children) : FitsU16(t.children[i])
    ELSE TRUE

\* The i32 a 4-byte big-endian two's-complement field denotes.
DecodeI32Be(b) ==
    ((IF b[1] >= 128 THEN b[1] - 256 ELSE b[1]) * (2^24))
    + (b[2] * (2^16)) + (b[3] * 256) + b[4]

\* The concatenation of the children's encodings, in child order.
ChildEncodings(t) ==
    ConcatRange([i \in 1..Len(t.children) |-> to_bytecode(t.children[i])],
                1, Len(t.children))

\* C1: for every Sublist, to_bytecode emits the tag 0x03, then 2 bytes
\* holding the big-endian byte length of the concatenated child encodings,
\* then exactly that concatenation in child order; an empty Sublist encodes
\* as the 3 bytes 0x03 0x00 0x00.
C1_SublistLayout ==
    (call = "to_bytecode" /\ tree.kind = "Sublist" /\ outcome = "ok") =>
        /\ Len(bytes) = 3 + PayloadLen(tree)
        /\ bytes[1] = 3
        /\ bytes[2] \in 0..255 /\ bytes[3] \in 0..255
        /\ (bytes[2] * 256) + bytes[3] = PayloadLen(tree)
        /\ SubSeq(bytes, 4, Len(bytes)) = ChildEncodings(tree)
        /\ (tree.children = <<>> => bytes = <<3, 0, 0>>)

\* The layout of C1 for the Sublists whose payload fits the length field.
SublistLayoutWhenFits ==
    (call = "to_bytecode" /\ tree.kind = "Sublist" /\ outcome = "ok"
       /\ PayloadLen(tree) < U16Modulus) => C1_SublistLayout

\* C2: encoding a Sublist whose payload is longer than 65535 bytes fails
\* loudly (a panic, nothing returned); to_bytecode never emits the payload
\* length truncated modulo 2^16.
C2_OversizedPayloadFailsLoudly ==
    (call = "to_bytecode" /\ ~FitsU16(tree)) =>
        (outcome = "panic" /\ bytes = <<>>)

C4_OpcodeMappingTotalInjective ==
    (call = "to_bytecode" /\ tree.kind = "Instruction") =>
        /\ outcome = "ok"
        /\ Len(bytes) = 1
        /\ bytes[1] \in 0..255
        /\ \A i \in 1..Len(InstructionSetOpcodes) :
              InstructionSetOpcodes[i] # tree.op =>
                  to_bytecode(Instruction(InstructionSetOpcodes[i])) # bytes

\* The part of C4 that holds: over the six variants of OpCode the mapping
\* is total and injective.
OpcodeMappingOnEnum ==
    (call = "to_bytecode" /\ tree.kind = "Instruction"
       /\ tree.op \in OpCode) =>
        /\ outcome = "ok"
        /\ Len(bytes) = 1
        /\ bytes[1] \in 0..255
        /\ \A o \in OpCode \ {tree.op} : to_bytecode(Instruction(o)) # bytes

\* The programs of the universe whose payloads fit, with their encodings.
FittingPrograms == {u \in EncPrograms : FitsU16(u)}

Encoding == [u \in FittingPrograms |-> to_bytecode(u)]

\* C5: two structurally different programs whose sublist payloads fit in 16
\* bits never encode to the same bytes.
C5_EncodingInjective ==
    (call = "to_bytecode" /\ tree \in FittingPrograms) =>
        \A u \in FittingPrograms : u # tree => Encoding[u] # bytes

\* C5's case: a nested program was encoded and a different program has an
\* encoding of the same length (and the same tag).
C5_Witness ==
    /\ call = "to_bytecode"
    /\ tree \in FittingPrograms
    /\ tree.kind = "Sublist"
    /\ \E i \in 1..Len(tree.children) : tree.children[i].kind = "Sublist"
    /\ \E u \in FittingPrograms :
          /\ u # tree
          /\ Len(Encoding[u]) = Len(bytes)
          /\ Encoding[u][1] = bytes[1]

(***************************************************************************)
(* Properties of the generator.                                            *)
(***************************************************************************)
\* C6: random_code_with_size(n), n >= 1, returns a tree of exactly n nodes
\* (decompose(n - 1) yields positive parts summing to n - 1); hence
\* random_code(max_points) returns a tree of 1 .. max_points nodes.
C6_GeneratedSizeIsBudget ==
    (call \in {"random_code", "random_code_with_size"}) =>
        /\ actual_points >= 1
        /\ get_subtree_size(result) = actual_points
        /\ get_subtree_size(result) \in 1..max_points
        /\ (actual_points >= 2 =>
               \A parts \in decompose(actual_points - 1, actual_points - 1) :
                   /\ \A i \in 1..Len(parts) : parts[i] >= 1
                   /\ SumSeq(parts) = actual_points - 1)

\* C6's case: random_code drew a budget below max_points and returned a
\* tree with a nested Sublist (decompose produced a part larger than 1).
C6_Witness ==
    /\ call = "random_code"
    /\ actual_points >= 4
    /\ actual_points < max_points
    /\ result.kind = "Sublist"
    /\ \E i \in 1..Len(result.children) : result.children[i].kind = "Sublist"

(***************************************************************************)
(* Properties of the structural operators.  Path validity and the node a   *)
(* path addresses are defined here on their own, not through get_subtree.  *)
(***************************************************************************)
\* Whether every index of p is below the child count of the Sublist it
\* addresses (so p addresses a node of t).
RECURSIVE ValidPath(_, _)
ValidPath(t, p) ==
    \/ p = <<>>
    \/ /\ t.kind = "Sublist"
       /\ p[1] < Len(t.children)
       /\ ValidPath(t.children[p[1] + 1], Tail(p))

\* The node a valid path addresses.
RECURSIVE NodeAt(_, _)
NodeAt(t, p) ==
    IF p = <<>> THEN t ELSE NodeAt(t.children[p[1] + 1], Tail(p))

Prefix(p, n) == SubSeq(p, 1, n)

\* The length of the longest prefix of p that is a valid path of t.
ValidPrefixLen(t, p) ==
    CHOOSE n \in 0..Len(p) :
        /\ ValidPath(t, Prefix(p, n))
        /\ \A m \in (n + 1)..Len(p) : ~ValidPath(t, Prefix(p, m))

\* The node at which a descent along p stops: the node its longest valid
\* prefix addresses.
StopNode(t, p) == NodeAt(t, Prefix(p, ValidPrefixLen(t, p)))

\* Preorder on paths: a path precedes its extensions, and otherwise paths
\* are ordered by the first index in which they differ.
PathBefore(p, q) ==
    \/ Len(p) < Len(q) /\ Prefix(q, Len(p)) = p
    \/ \E i \in 1..Len(p) :
          /\ i <= Len(q)
          /\ Prefix(p, i - 1) = Prefix(q, i - 1)
          /\ p[i] < q[i]

\* C7: enum_nodes_dfs(t) returns exactly get_subtree_size(t) pairwise
\* distinct paths in DFS preorder (the root's empty path first, children
\* left to right), one per node including every Sublist node, each in range.
C7_EnumNodesDfsComplete ==
    (call = "enum_nodes_dfs") =>
        /\ Len(paths) = get_subtree_size(tree)
        /\ paths[1] = <<>>
        /\ \A i, j \in 1..Len(paths) : i < j => PathBefore(paths[i], paths[j])
        /\ \A i, j \in 1..Len(paths) : i # j => paths[i] # paths[j]
        /\ \A i \in 1..Len(paths) : ValidPath(tree, paths[i])
        /\ \A p \in PathInputs :
              ValidPath(tree, p) => \E i \in 1..Len(paths) : paths[i] = p

\* C7's case: a tree with a Sublist nested in a Sublist and a sibling after
\* it was enumerated.
C7_Witness ==
    /\ call = "enum_nodes_dfs"
    /\ Len(paths) = 4
    /\ paths[2] = <<0>> /\ paths[3] = <<0, 0>> /\ paths[4] = <<1>>

\* C8: for every path p enumerated from t (the empty root path included)
\* and every replacement r, get_subtree(replace_subtree(t, p, r), p) = r; in
\* particular replace_subtree(t, [], r) = r.
C8_ReadAfterWrite ==
    /\ (call = "get_subtree(replace_subtree)"
          /\ \E i \in 1..Len(enum_nodes_dfs(tree)) :
                enum_nodes_dfs(tree)[i] = chosen_path)
       => (outcome = "ok" /\ subtree = new_subtree)
    /\ (call = "replace_subtree" /\ chosen_path = <<>>)
       => (outcome = "ok" /\ result = new_subtree)
    /\ (call = "replace_subtree"
          /\ \E i \in 1..Len(enum_nodes_dfs(tree)) :
                enum_nodes_dfs(tree)[i] = chosen_path)
       => outcome = "ok"

\* C8's case: a node two levels down was replaced by a Sublist and read back.
C8_Witness ==
    /\ call = "get_subtree(replace_subtree)"
    /\ Len(chosen_path) = 2
    /\ ValidPath(tree, chosen_path)
    /\ new_subtree.kind = "Sublist" /\ new_subtree.children # <<>>
    /\ subtree = new_subtree
    /\ result # tree

C10_InvalidPathReturnsOriginal ==
    (call = "replace_subtree" /\ ~ValidPath(tree, chosen_path)) =>
        (outcome = "ok" /\ result = tree)

\* The part of C10 that holds: a path that runs into a leaf (every index
\* met on the way being in range) returns the original.
ReplaceIntoLeafReturnsOriginal ==
    (call = "replace_subtree" /\ ~ValidPath(tree, chosen_path)
       /\ StopNode(tree, chosen_path).kind # "Sublist") =>
        (outcome = "ok" /\ result = tree)

(***************************************************************************)
(* Point mutation (gp/mutation.rs, point_mutate).  The random source is a  *)
(* nondeterministic choice: each operator is the set of trees the code can *)
(* return over the draws explored.  Rates and the draws of                 *)
(* rng.gen::<f64>() (a value of [0, 1)) are counted in hundredths.         *)
(***************************************************************************)
\* The draws of rng.gen::<f64>() explored, in hundredths: both sides of
\* each threshold it is compared with (the rates, and 0.3).
UnitDraws == {0, 9, 10, 29, 30, 99}

\* A faulty variant of should_mutate_draws: the trial hits when the draw is
\* at most the rate, so a draw of 0.0 hits at rate 0.0.
should_mutate_draws_Inclusive(mutation_rate) ==
    {u <= mutation_rate : u \in UnitDraws}

\* `rng.gen::<f64>() < mutation_rate`: the values should_mutate can take.
should_mutate_draws(mutation_rate) ==
    {u < mutation_rate : u \in UnitDraws}

\* i32::saturating_add.
saturating_add(val, delta) ==
    IF delta > 0 /\ val > MaxI32 - delta THEN MaxI32
    ELSE IF delta < 0 /\ val < MinI32 - delta THEN MinI32
    ELSE val + delta

\* The draws of gen_range(-5..=5) explored.
DeltaDraws == {-5, 0, 5}

\* The opcode the match on gen_range(0..6) yields, draw by draw.
ResampledOps == <<"Noop", "Plus", "Minus", "Mult", "Dup", "Pop">>

\* The draws of gen_range(0..6) explored.
OpDraws == {0, 1, 5}

\* The child a structural insertion adds: IntLiteral(gen_range(-10..=10)) or
\* one of Plus, Minus, Mult, Dup, Pop; the draws explored.
NewChildDraws ==
    {IntLiteral(-10), IntLiteral(10), Instruction("Plus"), Instruction("Pop")}

\* Vec::remove(idx) and Vec::insert(idx, x), idx 0-based.
RemoveAt(cs, idx) ==
    [i \in 1..(Len(cs) - 1) |-> IF i <= idx THEN cs[i] ELSE cs[i + 1]]

InsertAt(cs, idx, x) ==
    [i \in 1..(Len(cs) + 1) |->
        IF i <= idx THEN cs[i] ELSE IF i = idx + 1 THEN x ELSE cs[i - 1]]

\* A faulty variant of structural_mutations: a child is removed also from a
\* Sublist with a single child.
structural_mutations_RemovesOnlyChild(new_children) ==
    (IF Len(new_children) > 0
     THEN {RemoveAt(new_children, remove_idx) :
              remove_idx \in 0..(Len(new_children) - 1)}
     ELSE {})
    \cup
    (IF Len(new_children) < 8
     THEN {InsertAt(new_children, insert_idx, new_child) :
              insert_idx \in 0..Len(new_children), new_child \in NewChildDraws}
     ELSE {})

\* The structural mutation of a Sublist whose own trial hit and whose second
\* draw was below 0.3: every Vec it can leave in modified_children.
structural_mutations(new_children) ==
    (IF Len(new_children) > 1
     THEN {RemoveAt(new_children, remove_idx) :
              remove_idx \in 0..(Len(new_children) - 1)}
     ELSE {})
    \cup
    (IF Len(new_children) < 8
     THEN {InsertAt(new_children, insert_idx, new_child) :
              insert_idx \in 0..Len(new_children), new_child \in NewChildDraws}
     ELSE IF Len(new_children) > 1 THEN {new_children} ELSE {})

RECURSIVE point_mutate_recursive(_, _), MutatedChildren(_, _)
point_mutate_recursive(ast, mutation_rate) ==
    UNION {
      CASE ast.kind = "IntLiteral" ->
              IF should_mutate
              THEN {IntLiteral(saturating_add(ast.val, delta)) :
                       delta \in DeltaDraws}
              ELSE {ast}
        [] ast.kind = "Instruction" ->
              IF should_mutate
              THEN {Instruction(ResampledOps[d + 1]) : d \in OpDraws}
              ELSE {ast}
        [] ast.kind = "Sublist" ->
              UNION {
                (IF should_mutate /\ (\E u \in UnitDraws : u < 30)
                 THEN {Sublist(cs) : cs \in structural_mutations(new_children)}
                 ELSE {})
                \cup
                (IF ~should_mutate \/ (\E u \in UnitDraws : ~(u < 30))
                 THEN {Sublist(new_children)}
                 ELSE {})
                : new_children \in MutatedChildren(ast.children, mutation_rate)}
      : should_mutate \in should_mutate_draws(mutation_rate)}

\* children.iter().map(|child| point_mutate_recursive(child, ..)).collect():
\* every Vec the map can collect.
MutatedChildren(children, mutation_rate) ==
    IF children = <<>> THEN {<<>>}
    ELSE {<<c>> \o rest :
             c \in point_mutate_recursive(Head(children), mutation_rate),
             rest \in MutatedChildren(Tail(children), mutation_rate)}

point_mutate(original, mutation_rate) ==
    point_mutate_recursive(original, mutation_rate)

(***************************************************************************)
(* Specification SpecPoint: point_mutate applied to every tree of a        *)
(* bounded size at several rates.                                          *)
(***************************************************************************)
\* Bound: the node count of the trees point_mutate is applied to.
MaxPointNodes == 3

PointLeaves == {IntLiteral(MaxI32 - 2), Instruction("Plus")}

PointInputs == TreesUpTo(MaxPointNodes, PointLeaves)

\* The mutation rates explored, in hundredths: 0.0, 0.1 (the fallback of
\* size_limited_mutate) and 1.0.
RateInputs == {0, 10, 100}

InitPoint ==
    /\ call = "none"
    /\ tree \in PointInputs
    /\ outcome = "none"
    /\ TreeIdle /\ EncIdle /\ GenIdle /\ PopIdle /\ LoopIdle
    /\ tree_b = NoTree /\ result_b = NoTree
    /\ rate \in RateInputs
    /\ size_cap = 0 /\ shrink_arg = NoTree /\ depth = 0 /\ removals = 0
    /\ chosen_pair = <<>>

\* result = point_mutate(&tree, rng, rate)
PointMutate ==
    /\ call = "none"
    /\ call' = "point_mutate"
    /\ result' \in point_mutate(tree, rate)
    /\ outcome' = "ok"
    /\ UNCHANGED <<tree, chosen_path, new_subtree, subtree, paths, encVars,
                   genVars, mutVars, popVars, loopVars>>

NextPoint == PointMutate

SpecPoint == InitPoint /\ [][NextPoint]_vars

(***************************************************************************)
(* Size-limited mutation and shrink (gp/mutation.rs).  shrink_ast is       *)
(* recursive and private: it is reached only from size_limited_mutate.     *)
(* Each activation of shrink_ast is one step, so that a recursion that     *)
(* does not end is visible; the call stack is finite, and a recursion that *)
(* outgrows it aborts the program.                                         *)
(***************************************************************************)
\* Bound: the node count of the trees size_limited_mutate is applied to.
MaxMutNodes == 4

\* Bound: the largest max_points / max_size argument explored.
MaxMutBudget == 3

\* Bound: the number of shrink_ast activations the call stack can hold.
MaxStackDepth == 8

\* ranmdom_code_fixed(rng, max_points) = random_code(rng, new_default,
\* max_points): every tree it can return.
ranmdom_code_fixed(points_cap) ==
    UNION {random_code_with_size(drawn) : drawn \in 1..points_cap}

\* mutate_by_index(original, rng, max_points): every tree it can return
\* (Panicked if replace_subtree panics).
mutate_by_index(original, points_cap) ==
    LET all_paths == enum_nodes_dfs(original)
    IN  {replace_subtree(original, all_paths[idx + 1], fresh) :
            idx \in 0..(Len(all_paths) - 1),
            fresh \in ranmdom_code_fixed(points_cap)}

\* A faulty variant of mutate_within_limit: the mutated tree is returned
\* whatever its size.
mutate_within_limit_Unchecked(original, points_cap, max_size) ==
    mutate_by_index(original, points_cap)

\* The part of size_limited_mutate after the shrink test: every tree it can
\* return when current_size <= max_size.
mutate_within_limit(original, points_cap, max_size) ==
    UNION {IF mutated = Panicked THEN {Panicked}
           ELSE IF get_subtree_size(mutated) <= max_size THEN {mutated}
           ELSE point_mutate(original, 10)
           : mutated \in mutate_by_index(original, points_cap)}

\* Whether an activation of shrink_ast returns its argument as it is: a
\* leaf, or a Sublist without children.
shrink_returns_arg(ast) ==
    IF ast.kind = "Sublist" THEN ast.children = <<>> ELSE TRUE

\* The Sublist an activation of shrink_ast builds from a Sublist with
\* children: one child removed if there is more than one, for each draw of
\* remove_idx.
shrink_results(ast) ==
    IF Len(ast.children) > 1
    THEN {Sublist(RemoveAt(ast.children, remove_idx)) :
             remove_idx \in 0..(Len(ast.children) - 1)}
    ELSE {Sublist(ast.children)}

(***************************************************************************)
(* Specification SpecShrink: size_limited_mutate on every tree of a        *)
(* bounded size, with every max_size from 0 up.                            *)
(***************************************************************************)
ShrinkLeaves == {IntLiteral(1)}

ShrinkInputs == TreesUpTo(MaxMutNodes, ShrinkLeaves)

InitShrink ==
    /\ call = "none"
    /\ tree \in ShrinkInputs
    /\ outcome = "none"
    /\ TreeIdle /\ EncIdle /\ PopIdle /\ LoopIdle
    /\ max_points \in 1..MaxMutBudget
    /\ actual_points = 0
    /\ tree_b = NoTree /\ result_b = NoTree
    /\ rate = 0
    /\ size_cap \in 0..MaxMutBudget
    /\ shrink_arg = NoTree /\ depth = 0 /\ removals = 0
    /\ chosen_pair = <<>>

\* size_limited_mutate(&tree, rng, max_points, size_cap): with the tree over
\* the cap it calls shrink_ast (first activation); otherwise it returns the
\* mutated tree or the point-mutation fallback.
SizeLimitedMutate ==
    /\ call = "none"
    /\ IF get_subtree_size(tree) > size_cap
       THEN /\ call' = "shrink_ast"
            /\ shrink_arg' = tree
            /\ depth' = 1
            /\ outcome' = "running"
            /\ UNCHANGED result
       ELSE /\ call' = "size_limited_mutate"
            /\ result' \in mutate_within_limit(tree, max_points, size_cap)
            /\ outcome' = IF result' = Panicked THEN "panic" ELSE "ok"
            /\ UNCHANGED <<shrink_arg, depth>>
    /\ UNCHANGED <<tree, chosen_path, new_subtree, subtree, paths, encVars,
                   genVars, tree_b, result_b, rate, size_cap, removals,
                   chosen_pair, popVars, loopVars>>

\* The innermost activation of shrink_ast returns: a leaf or an empty
\* Sublist as it is, otherwise the Sublist it built, when that is within
\* the target.  Every enclosing activation returns the same value.
ShrinkReturn ==
    /\ call = "shrink_ast" /\ outcome = "running"
    /\ \/ /\ shrink_returns_arg(shrink_arg)
          /\ result' = shrink_arg
          /\ UNCHANGED removals
       \/ /\ ~shrink_returns_arg(shrink_arg)
          /\ \E built \in shrink_results(shrink_arg) :
                /\ ~(get_subtree_size(built) > size_cap)
                /\ result' = built
                /\ removals' = IF built = shrink_arg THEN removals
                               ELSE removals + 1
    /\ outcome' = "ok"
    /\ UNCHANGED <<call, tree, chosen_path, new_subtree, subtree, paths,
                   encVars, genVars, tree_b, result_b, rate, size_cap,
                   shrink_arg, depth, chosen_pair, popVars, loopVars>>

\* The innermost activation built a Sublist that is still over the target
\* and calls shrink_ast on it.
ShrinkRecurse ==
    /\ call = "shrink_ast" /\ outcome = "running"
    /\ ~shrink_returns_arg(shrink_arg)
    /\ depth < MaxStackDepth
    /\ \E built \in shrink_results(shrink_arg) :
          /\ get_subtree_size(built) > size_cap
          /\ shrink_arg' = built
          /\ removals' = IF built = shrink_arg THEN removals ELSE removals + 1
    /\ depth' = depth + 1
    /\ UNCHANGED <<call, tree, outcome, treeVars, encVars, genVars, tree_b,
                   result_b, rate, size_cap, chosen_pair, popVars,
                   loopVars>>

\* The recursive call needs a stack frame the stack no longer has: the
\* program aborts and nothing is returned.
ShrinkStackOverflow ==
    /\ call = "shrink_ast" /\ outcome = "running"
    /\ ~shrink_returns_arg(shrink_arg)
    /\ depth = MaxStackDepth
    /\ \E built \in shrink_results(shrink_arg) :
          get_subtree_size(built) > size_cap
    /\ outcome' = "stack_overflow"
    /\ UNCHANGED <<call, tree, treeVars, encVars, genVars, mutVars, popVars,
                   loopVars>>

NextShrink ==
    SizeLimitedMutate \/ ShrinkReturn \/ ShrinkRecurse \/ ShrinkStackOverflow

SpecShrink == InitShrink /\ [][NextShrink]_vars

(***************************************************************************)
(* Properties of shrink and of point mutation.                             *)
(***************************************************************************)
\* C11: shrink always terminates: reached from size_limited_mutate with a
\* tree over max_size, it returns after finitely many child removals (every
\* activation after the first follows a removal, so the recursion is no
\* deeper than removals + 1 and never exhausts the stack), with a tree at or
\* under the target, or a root Sublist with at most one child left (or a
\* leaf, which has no children to remove).
C11_ShrinkTerminates ==
    (call = "shrink_ast") =>
        /\ outcome # "stack_overflow"
        /\ depth <= removals + 1
        /\ (outcome = "ok" =>
               \/ get_subtree_size(result) <= size_cap
               \/ result.kind = "Sublist" /\ Len(result.children) <= 1
               \/ result.kind # "Sublist" /\ result = tree)

\* The part of C11 that holds: while the root Sublist has more than one
\* child, every activation removes one, and a tree that is returned is at or
\* under the target or is a leaf or empty Sublist returned as it was.
ShrinkRemovesWhileItCan ==
    (call = "shrink_ast") =>
        /\ removals <= get_subtree_size(tree)
        /\ (outcome = "running" /\ shrink_arg.kind = "Sublist"
               /\ Len(shrink_arg.children) > 1
               => depth = removals + 1)
        /\ (outcome = "ok" =>
               \/ get_subtree_size(result) <= size_cap
               \/ result = tree /\ shrink_returns_arg(tree))

\* C12: point_mutate(t, 0.0) returns a tree structurally equal to t, for
\* every tree t and every state of the random source.
C12_ZeroRateIsIdentity ==
    (call = "point_mutate" /\ rate = 0) =>
        (outcome = "ok" /\ result = tree)

\* C12's case: a Sublist with a nested Sublist and a leaf was point-mutated
\* at rate 0.0, and the same tree can change at rate 1.0.
C12_Witness ==
    /\ call = "point_mutate"
    /\ rate = 0
    /\ tree.kind = "Sublist"
    /\ \E i \in 1..Len(tree.children) : tree.children[i].kind = "Sublist"
    /\ result = tree
    /\ point_mutate(tree, 100) # {tree}

(***************************************************************************)
(* Size-aware crossover (gp/mutation.rs, size_aware_crossover).            *)
(***************************************************************************)
\* The value of best_pair while no pair has been taken (None; its ratio is
\* f64::INFINITY).
NoPair == <<>>

\* A faulty variant of ratio_less: `ratio > best_size_ratio`, which keeps the
\* pair of the most unequal sizes.
ratio_less_Greater(size_a, size_b, best_a, best_b) ==
    LET hi(x, y) == IF x >= y THEN x ELSE y
        lo(x, y) == IF x >= y THEN y ELSE x
    IN  hi(size_a, size_b) * lo(best_a, best_b)
            > hi(best_a, best_b) * lo(size_a, size_b)

\* `ratio < best_size_ratio` for the pair (size_a, size_b) against the best
\* pair so far: the ratios are larger / smaller of two node counts, compared
\* here by cross-multiplication.
ratio_less(size_a, size_b, best_a, best_b) ==
    LET hi(x, y) == IF x >= y THEN x ELSE y
        lo(x, y) == IF x >= y THEN y ELSE x
    IN  hi(size_a, size_b) * lo(best_a, best_b)
            < hi(best_a, best_b) * lo(size_a, size_b)

\* A faulty variant of best_pair_scan: a pair replaces the best so far also
\* when its ratio is equal, so the last pair of minimal ratio is taken.
RECURSIVE best_pair_scan_LastFound(_, _, _, _)
best_pair_scan_LastFound(sizes_a, sizes_b, k, best) ==
    IF k = Len(sizes_a) * Len(sizes_b) THEN best
    ELSE LET i == k \div Len(sizes_b)
             j == k % Len(sizes_b)
             better ==
                 IF best = NoPair THEN TRUE
                 ELSE ~ratio_less(sizes_a[best[1] + 1], sizes_b[best[2] + 1],
                                  sizes_a[i + 1], sizes_b[j + 1])
         IN  best_pair_scan_LastFound(sizes_a, sizes_b, k + 1,
                                      IF better THEN <<i, j>> ELSE best)

\* The two nested loops over sizes_a (outer, index i) and sizes_b (inner,
\* index j), from the k-th pair on: the value of best_pair when they end.
RECURSIVE best_pair_scan(_, _, _, _)
best_pair_scan(sizes_a, sizes_b, k, best) ==
    IF k = Len(sizes_a) * Len(sizes_b) THEN best
    ELSE LET i == k \div Len(sizes_b)
             j == k % Len(sizes_b)
             better ==
                 IF best = NoPair THEN TRUE
                 ELSE ratio_less(sizes_a[i + 1], sizes_b[j + 1],
                                 sizes_a[best[1] + 1], sizes_b[best[2] + 1])
         IN  best_pair_scan(sizes_a, sizes_b, k + 1,
                            IF better THEN <<i, j>> ELSE best)

\* sizes: the node count of the subtree at every enumerated path.
subtree_sizes(t) ==
    [i \in 1..Len(enum_nodes_dfs(t)) |->
        get_subtree_size(get_subtree(t, enum_nodes_dfs(t)[i]))]

\* The (idx_a, idx_b) size_aware_crossover can swap: best_pair, or any pair
\* drawn by the rng when best_pair is None.
crossover_pairs(a, b) ==
    LET best_pair == best_pair_scan(subtree_sizes(a), subtree_sizes(b), 0,
                                    NoPair)
    IN  IF best_pair = NoPair
        THEN {<<i, j>> : i \in 0..(Len(enum_nodes_dfs(a)) - 1),
                         j \in 0..(Len(enum_nodes_dfs(b)) - 1)}
        ELSE {best_pair}

\* A faulty variant of swap_subtrees: the second child is the second parent
\* as it was.
swap_subtrees_OneWay(a, b, idx_a, idx_b) ==
    LET chosen_a  == enum_nodes_dfs(a)[idx_a + 1]
        chosen_b  == enum_nodes_dfs(b)[idx_b + 1]
        subtree_b == get_subtree(b, chosen_b)
    IN  <<replace_subtree(a, chosen_a, subtree_b), b>>

\* Steps 3 and 4 of both crossovers: the two children for a chosen pair.
swap_subtrees(a, b, idx_a, idx_b) ==
    LET chosen_a  == enum_nodes_dfs(a)[idx_a + 1]
        chosen_b  == enum_nodes_dfs(b)[idx_b + 1]
        subtree_a == get_subtree(a, chosen_a)
        subtree_b == get_subtree(b, chosen_b)
    IN  <<replace_subtree(a, chosen_a, subtree_b),
          replace_subtree(b, chosen_b, subtree_a)>>

\* The (idx_a, idx_b) crossover_by_index can draw: any node of a with any
\* node of b.
crossover_by_index_pairs(a, b) ==
    {<<i, j>> : i \in 0..(Len(enum_nodes_dfs(a)) - 1),
                j \in 0..(Len(enum_nodes_dfs(b)) - 1)}

(***************************************************************************)
(* Specification SpecCross: crossover of every two trees of a bounded      *)
(* size.  The two parents have different leaves, so that a swapped subtree *)
(* shows where it came from.                                               *)
(***************************************************************************)
\* Bound: the node count of each parent.
MaxCrossNodes == 4

CrossInputsA == TreesUpTo(MaxCrossNodes, {IntLiteral(1)})

CrossInputsB == TreesUpTo(MaxCrossNodes, {Instruction("Plus")})

InitCross ==
    /\ call = "none"
    /\ tree \in CrossInputsA
    /\ outcome = "none"
    /\ TreeIdle /\ EncIdle /\ GenIdle /\ PopIdle /\ LoopIdle
    /\ tree_b \in CrossInputsB
    /\ result_b = NoTree
    /\ rate = 0 /\ size_cap = 0 /\ shrink_arg = NoTree /\ depth = 0
    /\ removals = 0
    /\ chosen_pair = <<>>

\* (result, result_b) = size_aware_crossover(&tree, &tree_b, rng)
SizeAwareCrossover ==
    /\ call = "none"
    /\ call' = "size_aware_crossover"
    /\ \E pr \in crossover_pairs(tree, tree_b) :
          /\ chosen_pair' = pr
          /\ result' = swap_subtrees(tree, tree_b, pr[1], pr[2])[1]
          /\ result_b' = swap_subtrees(tree, tree_b, pr[1], pr[2])[2]
    /\ outcome' = IF result' = Panicked \/ result_b' = Panicked
                  THEN "panic" ELSE "ok"
    /\ UNCHANGED <<tree, chosen_path, new_subtree, subtree, paths, encVars,
                   genVars, tree_b, rate, size_cap, shrink_arg, depth,
                   removals, popVars, loopVars>>

\* (result, result_b) = crossover_by_index(&tree, &tree_b, rng)
CrossoverByIndex ==
    /\ call = "none"
    /\ call' = "crossover_by_index"
    /\ \E pr \in crossover_by_index_pairs(tree, tree_b) :
          /\ chosen_pair' = pr
          /\ result' = swap_subtrees(tree, tree_b, pr[1], pr[2])[1]
          /\ result_b' = swap_subtrees(tree, tree_b, pr[1], pr[2])[2]
    /\ outcome' = IF result' = Panicked \/ result_b' = Panicked
                  THEN "panic" ELSE "ok"
    /\ UNCHANGED <<tree, chosen_path, new_subtree, subtree, paths, encVars,
                   genVars, tree_b, rate, size_cap, shrink_arg, depth,
                   removals, popVars, loopVars>>

NextCross == SizeAwareCrossover \/ CrossoverByIndex

SpecCross == InitCross /\ [][NextCross]_vars

(***************************************************************************)
(* Properties of size-aware crossover.  Node counts are taken from the     *)
(* node a path addresses (NodeAt), not from the sizes the operator         *)
(* computed.                                                               *)
(***************************************************************************)
\* The node count of the idx-th node of t in DFS preorder (idx 0-based).
SizeOfNode(t, idx) == get_subtree_size(NodeAt(t, enum_nodes_dfs(t)[idx + 1]))

\* max(x, y) / min(x, y) < max(u, v) / min(u, v) and the same with =.
RatioBelow(x, y, u, v) ==
    LET hi(m, n) == IF m >= n THEN m ELSE n
        lo(m, n) == IF m >= n THEN n ELSE m
    IN  hi(x, y) * lo(u, v) < hi(u, v) * lo(x, y)

RatioSame(x, y, u, v) == ~RatioBelow(x, y, u, v) /\ ~RatioBelow(u, v, x, y)

\* C13: size_aware_crossover swaps the pair (node of A, node of B) whose
\* subtree node counts have the minimal ratio larger / smaller over all pairs
\* of enumerated nodes; among the pairs of minimal ratio it takes the first
\* in the order A's nodes (DFS preorder) outer, B's nodes inner; each child
\* is its parent with the chosen node replaced by the other parent's.
C13_MinimalRatioFirstFound ==
    (call = "size_aware_crossover") =>
        LET i == chosen_pair[1]
            j == chosen_pair[2]
            na == get_subtree_size(tree)
            nb == get_subtree_size(tree_b)
        IN  /\ outcome = "ok"
            /\ i \in 0..(na - 1) /\ j \in 0..(nb - 1)
            /\ \A i2 \in 0..(na - 1), j2 \in 0..(nb - 1) :
                  /\ ~RatioBelow(SizeOfNode(tree, i2), SizeOfNode(tree_b, j2),
                                 SizeOfNode(tree, i), SizeOfNode(tree_b, j))
                  /\ RatioSame(SizeOfNode(tree, i2), SizeOfNode(tree_b, j2),
                               SizeOfNode(tree, i), SizeOfNode(tree_b, j))
                     => (i < i2 \/ (i = i2 /\ j <= j2))
            /\ result = replace_subtree(tree, enum_nodes_dfs(tree)[i + 1],
                            NodeAt(tree_b, enum_nodes_dfs(tree_b)[j + 1]))
            /\ result_b = replace_subtree(tree_b, enum_nodes_dfs(tree_b)[j + 1],
                            NodeAt(tree, enum_nodes_dfs(tree)[i + 1]))
            /\ NodeAt(result, enum_nodes_dfs(tree)[i + 1])
                   = NodeAt(tree_b, enum_nodes_dfs(tree_b)[j + 1])
            /\ NodeAt(result_b, enum_nodes_dfs(tree_b)[j + 1])
                   = NodeAt(tree, enum_nodes_dfs(tree)[i + 1])

\* C13's case: the chosen pair is neither the first pair scanned nor the
\* last pair of minimal ratio, and a pair of larger ratio was scanned
\* before it.
C13_Witness ==
    /\ call = "size_aware_crossover"
    /\ chosen_pair[1] > 0 /\ chosen_pair[2] > 0
    /\ RatioBelow(SizeOfNode(tree, chosen_pair[1]),
                  SizeOfNode(tree_b, chosen_pair[2]),
                  SizeOfNode(tree, 0), SizeOfNode(tree_b, 0))
    /\ \E i2 \in chosen_pair[1]..(get_subtree_size(tree) - 1),
          j2 \in 0..(get_subtree_size(tree_b) - 1) :
          /\ <<i2, j2>> # chosen_pair
          /\ RatioSame(SizeOfNode(tree, i2), SizeOfNode(tree_b, j2),
                       SizeOfNode(tree, chosen_pair[1]),
                       SizeOfNode(tree_b, chosen_pair[2]))
    /\ result # tree /\ result_b # tree_b

(***************************************************************************)
(* f64 values (gp/population_management.rs).  An f64 is modelled by the    *)
(* exact rational it approximates, a record [num, den] in lowest terms     *)
(* with den > 0; rounding is not modelled.                                 *)
(***************************************************************************)
Abs(x) == IF x < 0 THEN -x ELSE x

RECURSIVE Gcd(_, _)
Gcd(x, y) == IF y = 0 THEN x ELSE Gcd(y, x % y)

\* n / d in lowest terms, d > 0.
Rat(n, d) ==
    LET g == Gcd(Abs(n), d)
    IN  [num |-> n \div g, den |-> d \div g]

RatZero == [num |-> 0, den |-> 1]

RatOne == [num |-> 1, den |-> 1]

RatOfInt(n) == [num |-> n, den |-> 1]

\* x + y over the least common denominator.
RatAdd(x, y) ==
    LET g == Gcd(Abs(x.den), Abs(y.den))
    IN  Rat((x.num * (y.den \div g)) + (y.num * (x.den \div g)),
            (x.den \div g) * y.den)

\* x * y; a factor of exactly 1.0 leaves the other operand as it is.
RatMul(x, y) ==
    IF x = RatOne THEN y
    ELSE IF y = RatOne THEN x
    ELSE Rat(x.num * y.num, x.den * y.den)

\* x / y, y # 0.
RatDiv(x, y) ==
    IF y.num > 0 THEN Rat(x.num * y.den, x.den * y.num)
    ELSE Rat(-(x.num * y.den), x.den * (-y.num))

RatNeg(x) == [num |-> 0 - x.num, den |-> x.den]

RatSub(x, y) == RatAdd(x, RatNeg(y))

\* x < y and x <= y, compared over the least common denominator.
RatLess(x, y) ==
    LET g == Gcd(Abs(x.den), Abs(y.den))
    IN  x.num * (y.den \div g) < y.num * (x.den \div g)

RatLeq(x, y) ==
    LET g == Gcd(Abs(x.den), Abs(y.den))
    IN  x.num * (y.den \div g) <= y.num * (x.den \div g)

\* Whether the value is >= 0 (the sign test needs no product).
RatNonNeg(x) ==
    IF x.den > 0 THEN x.num >= 0 ELSE x.num <= 0

(***************************************************************************)
(* Structural distance (gp/population_management.rs).                      *)
(***************************************************************************)
\* val_a - val_b on i32: whether it overflows, and the wrapped result.
i32_sub(val_a, val_b) ==
    IF val_a >= 0 /\ val_b < 0 /\ val_a > MaxI32 + val_b
    THEN [overflow |-> TRUE,
          value |-> ((val_a - MaxI32) - 1) + (-((val_b + MaxI32) + 1))]
    ELSE IF val_a < 0 /\ val_b > 0 /\ val_a < MinI32 + val_b
    THEN [overflow |-> TRUE,
          value |-> ((val_a + MaxI32) + 1) + ((MaxI32 - val_b) + 1)]
    ELSE [overflow |-> FALSE, value |-> val_a - val_b]

\* i32::abs: whether it overflows (i32::MIN), and the wrapped result.
i32_abs(x) ==
    IF x = MinI32 THEN [overflow |-> TRUE, value |-> MinI32]
    ELSE [overflow |-> FALSE, value |-> Abs(x)]

\* `(val_a - val_b).abs()`: Panicked when an overflow is met in a build that
\* checks overflow, otherwise the (possibly wrapped) i32.
abs_diff(val_a, val_b) ==
    LET sub == i32_sub(val_a, val_b)
        abs == i32_abs(sub.value)
    IN  IF overflow_checks /\ (sub.overflow \/ abs.overflow)
        THEN Panicked
        ELSE [kind |-> "i32", value |-> abs.value]

\* The IntLiteral arm: weight * (diff / (1.0 + diff)), diff the i32 above as
\* an f64.
literal_distance(val_a, val_b, weight) ==
    LET diff == abs_diff(val_a, val_b)
    IN  IF diff = Panicked THEN Panicked
        ELSE RatMul(weight, [num |-> diff.value, den |-> 1 + diff.value])

\* A faulty variant of instruction_distance: the two results exchanged.
instruction_distance_Inverted(op_a, op_b, weight) ==
    IF op_a = op_b THEN weight ELSE RatZero

\* The Instruction arm: 0.0 for the same variant, weight otherwise.
instruction_distance(op_a, op_b, weight) ==
    IF op_a = op_b THEN RatZero ELSE weight

\* A faulty variant of size_penalty: the divisor is taken from the first
\* list's length, not from the longer of the two.
size_penalty_FirstLen(len_a, len_b, weight) ==
    RatDiv(RatMul(weight, RatOfInt(Abs(len_a - len_b))), RatOfInt(1 + len_a))

\* The Sublist arm's size difference penalty:
\* weight * |len_a - len_b| / (1.0 + max_len).
size_penalty(len_a, len_b, weight) ==
    LET max_len == IF len_a >= len_b THEN len_a ELSE len_b
    IN  RatDiv(RatMul(weight, RatOfInt(Abs(len_a - len_b))),
               RatOfInt(1 + max_len))

\* total + x as the loop adds it; a panic ends the loop.
AddDistance(total, x) ==
    IF total = Panicked \/ x = Panicked THEN Panicked ELSE RatAdd(total, x)

RECURSIVE structural_distance_recursive(_, _, _), children_distance(_, _, _, _, _)
structural_distance_recursive(a, b, weight) ==
    CASE a.kind = "IntLiteral" /\ b.kind = "IntLiteral" ->
            literal_distance(a.val, b.val, weight)
      [] a.kind = "Instruction" /\ b.kind = "Instruction" ->
            instruction_distance(a.op, b.op, weight)
      [] a.kind = "Sublist" /\ b.kind = "Sublist" ->
            children_distance(a.children, b.children, weight, 0,
                size_penalty(Len(a.children), Len(b.children), weight))
      [] OTHER -> weight

\* The loop `for i in 0..min_len` from index i on, total_distance being
\* `total` when it is entered.
children_distance(children_a, children_b, weight, i, total) ==
    LET min_len == IF Len(children_a) <= Len(children_b)
                   THEN Len(children_a) ELSE Len(children_b)
    IN  IF i >= min_len \/ total = Panicked THEN total
        ELSE children_distance(children_a, children_b, weight, i + 1,
                 AddDistance(total,
                     structural_distance_recursive(
                         children_a[i + 1], children_b[i + 1],
                         RatMul(weight, Rat(4, 5)))))

structural_distance(a, b) == structural_distance_recursive(a, b, RatOne)

(***************************************************************************)
(* Specification SpecDist: structural_distance of every two trees of a     *)
(* bounded size, in both argument orders, in a build that checks integer   *)
(* overflow and in one that wraps.                                         *)
(***************************************************************************)
\* Bound: the node count of each tree.
MaxDistNodes == 3

DistLeaves == {IntLiteral(1), IntLiteral(3), Instruction("Plus")}

DistTrees == TreesUpTo(MaxDistNodes, DistLeaves) \cup {Instruction("Minus")}

\* Pairs of literals at and around the ends of i32: differences that fit,
\* that overflow in the subtraction, and that overflow in abs().
ExtremeLiteralPairs ==
    {<<IntLiteral(p[1]), IntLiteral(p[2])>> :
        p \in {<<MaxI32, -1>>, <<-1, MaxI32>>, <<MinI32, 0>>, <<0, MinI32>>,
               <<MinI32, MaxI32>>, <<MaxI32, MinI32>>, <<MaxI32, 1>>,
               <<1, MaxI32>>, <<MinI32, MinI32>>, <<MaxI32, MaxI32>>}}

DistInputs == (DistTrees \X DistTrees) \cup ExtremeLiteralPairs

InitDist ==
    /\ call = "none"
    /\ \E pr \in DistInputs : tree = pr[1] /\ tree_b = pr[2]
    /\ outcome = "none"
    /\ TreeIdle /\ EncIdle /\ GenIdle
    /\ result_b = NoTree
    /\ rate = 0 /\ size_cap = 0 /\ shrink_arg = NoTree /\ depth = 0
    /\ removals = 0
    /\ chosen_pair = <<>>
    /\ population = <<>> /\ prior = <<>>
    /\ returned = NoValue /\ returned_rev = NoValue
    /\ count_arg = 0 /\ real_arg = NoValue /\ selected = <<>>
    /\ overflow_checks \in BOOLEAN
    /\ LoopIdle

\* returned = structural_distance(&tree, &tree_b)
StructuralDistance ==
    /\ call = "none"
    /\ call' = "structural_distance"
    /\ returned' = structural_distance(tree, tree_b)
    /\ outcome' = IF returned' = Panicked THEN "panic" ELSE "ok"
    /\ UNCHANGED <<tree, treeVars, encVars, genVars, mutVars, population,
                   prior, returned_rev, count_arg, real_arg, selected,
                   overflow_checks, loopVars>>

\* returned_rev = structural_distance(&tree_b, &tree), after the call above.
StructuralDistanceExchanged ==
    /\ call = "structural_distance"
    /\ call' = "structural_distance(exchanged)"
    /\ returned_rev' = structural_distance(tree_b, tree)
    /\ UNCHANGED <<tree, outcome, treeVars, encVars, genVars, mutVars,
                   population, prior, returned, count_arg, real_arg,
                   selected, overflow_checks, loopVars>>

NextDist == StructuralDistance \/ StructuralDistanceExchanged

SpecDist == InitDist /\ [][NextDist]_vars

(***************************************************************************)
(* Properties of structural distance.                                      *)
(***************************************************************************)
\* C14: structural_distance is symmetric: structural_distance(a, b) equals
\* structural_distance(b, a) for all trees a and b (the two calls return the
\* same value, or both panic).
C14_DistanceSymmetric ==
    (call = "structural_distance(exchanged)") => returned_rev = returned

\* C14's case: two different Sublists of different lengths, whose common
\* children differ, were compared in both orders and are at a distance
\* above 0.
C14_Witness ==
    /\ call = "structural_distance(exchanged)"
    /\ tree.kind = "Sublist" /\ tree_b.kind = "Sublist"
    /\ Len(tree.children) > Len(tree_b.children)
    /\ Len(tree_b.children) > 0
    /\ tree.children[1] # tree_b.children[1]
    /\ returned # Panicked
    /\ RatLess(RatZero, returned)
    /\ returned_rev = returned

\* C15: structural_distance(a, a) is exactly 0 for every tree a, and
\* structural_distance(a, b) is never negative.
C15_ZeroOnSelfNonNegative ==
    (call = "structural_distance") =>
        /\ (tree = tree_b => (outcome = "ok" /\ returned = RatZero))
        /\ (outcome = "ok" => RatNonNeg(returned))

\* C15's case: a tree with an Instruction and an IntLiteral below a Sublist
\* was compared with itself.
C15_Witness ==
    /\ call = "structural_distance"
    /\ tree = tree_b
    /\ tree.kind = "Sublist" /\ Len(tree.children) = 2
    /\ tree.children[1].kind = "Instruction"
    /\ tree.children[2].kind = "IntLiteral"
    /\ returned = RatZero

\* The case of C15 in which the i32 difference wraps to a negative number:
\* the distance returned is still above 0.
WrappedDifferenceIsPositive ==
    (call = "structural_distance" /\ ~overflow_checks
       /\ tree = IntLiteral(MaxI32) /\ tree_b = IntLiteral(-1)) =>
        (returned = [num |-> MinI32, den |-> MinI32 + 1]
           /\ RatNonNeg(returned))

(***************************************************************************)
(* The population manager (gp/population_management.rs).  A population is  *)
(* a sequence of Individual records; positions are 0-based in the source   *)
(* and in `selected`, 1-based in the sequences here.                       *)
(***************************************************************************)
\* Individual::new(ast, fitness).
new_individual(ast, fitness) ==
    [ast |-> ast, fitness |-> fitness, size |-> get_subtree_size(ast),
     age |-> 0, novelty_score |-> RatZero]

\* age_population.
age_population(pop) ==
    [i \in 1..Len(pop) |-> [pop[i] EXCEPT !.age = @ + 1]]

\* s.sort_by(|a, b| a.partial_cmp(b).unwrap()) on f64: ascending.
RECURSIVE sort_ascending(_)
sort_ascending(s) ==
    IF s = <<>> THEN <<>>
    ELSE LET rest == sort_ascending(SubSeq(s, 1, Len(s) - 1))
             x    == s[Len(s)]
             pos  == Cardinality({i \in 1..Len(rest) : RatLeq(rest[i], x)})
         IN  SubSeq(rest, 1, pos) \o <<x>> \o SubSeq(rest, pos + 1, Len(rest))

\* The sum of the first k elements of a sequence of f64.
RECURSIVE RatSumFirst(_, _)
RatSumFirst(s, k) ==
    IF k = 0 THEN RatZero ELSE RatAdd(RatSumFirst(s, k - 1), s[k])

\* calculate_novelty_score(individual, population).
calculate_novelty_score(individual, pop) ==
    IF Len(pop) < 2 THEN RatOne
    ELSE LET quarter == Len(pop) \div 4
             floor5  == IF quarter >= 5 THEN quarter ELSE 5
             k       == IF floor5 <= Len(pop) - 1 THEN floor5 ELSE Len(pop) - 1
             distances ==
                 sort_ascending([i \in 1..Len(pop) |->
                                    structural_distance(individual, pop[i].ast)])
         IN  RatDiv(RatSumFirst(distances, k), RatOfInt(k))

\* remaining.sort_by(|a, b| b.fitness.partial_cmp(&a.fitness).unwrap()):
\* the positions of pop (0-based) by descending fitness; the sort is stable.
RECURSIVE sorted_by_fitness(_, _)
sorted_by_fitness(pop, n) ==
    IF n = 0 THEN <<>>
    ELSE LET rest == sorted_by_fitness(pop, n - 1)
             pos  == Cardinality({i \in 1..Len(rest) :
                        ~RatLess(pop[rest[i] + 1].fitness, pop[n].fitness)})
         IN  SubSeq(rest, 1, pos) \o <<n - 1>> \o SubSeq(rest, pos + 1, Len(rest))

\* The fold of f64::min over the distances from a candidate to the elites,
\* from f64::INFINITY: whether its result is >= min_distance.
min_dist_reaches(pop, candidate, elites, min_distance) ==
    \A e \in 1..Len(elites) :
        RatLeq(min_distance,
               structural_distance(pop[candidate + 1].ast,
                                   pop[elites[e] + 1].ast))

\* A faulty variant of diversity_bonus: the bonus goes to the candidates
\* that are close to an elite.
diversity_bonus_WhenClose(pop, candidate, elites, min_distance) ==
    IF ~min_dist_reaches(pop, candidate, elites, min_distance)
    THEN RatMul(pop[candidate + 1].fitness, Rat(3, 10))
    ELSE RatZero

\* diversity_bonus: candidate.fitness * 0.3 for a diverse candidate.
diversity_bonus(pop, candidate, elites, min_distance) ==
    IF min_dist_reaches(pop, candidate, elites, min_distance)
    THEN RatMul(pop[candidate + 1].fitness, Rat(3, 10))
    ELSE RatZero

total_score(pop, candidate, elites, min_distance) ==
    RatAdd(pop[candidate + 1].fitness,
           diversity_bonus(pop, candidate, elites, min_distance))

\* The value of best_score before any candidate is scored.
NegInfinity == [kind |-> "-inf"]

\* The inner for loop from candidate i on: best_candidate_idx when it ends.
\* best holds best_candidate_idx and best_score so far.
RECURSIVE best_candidate_scan(_, _, _, _, _, _)
best_candidate_scan(pop, remaining, elites, min_distance, i, best) ==
    IF i = Len(remaining) THEN best.idx
    ELSE LET score  == total_score(pop, remaining[i + 1], elites, min_distance)
             better == IF best.score = NegInfinity THEN TRUE
                       ELSE RatLess(best.score, score)
         IN  best_candidate_scan(pop, remaining, elites, min_distance, i + 1,
                 IF better THEN [idx |-> i, score |-> score] ELSE best)

best_candidate_idx(pop, remaining, elites, min_distance) ==
    best_candidate_scan(pop, remaining, elites, min_distance, 0,
                        [idx |-> 0, score |-> NegInfinity])

RECURSIVE elitism_loop_OneMore(_, _, _, _, _)
RECURSIVE elitism_loop(_, _, _, _, _)

\* A faulty variant of elitism_loop: the loop runs while
\* elites.len() <= elite_count.
elitism_loop_OneMore(pop, elites, remaining, elite_count, min_distance) ==
    IF Len(elites) <= elite_count /\ remaining # <<>>
    THEN LET idx == best_candidate_idx(pop, remaining, elites, min_distance)
         IN  elitism_loop(pop, Append(elites, remaining[idx + 1]),
                          RemoveAt(remaining, idx), elite_count, min_distance)
    ELSE elites

\* The while loop of diverse_elitism: the elites (positions of pop) when it
\* ends.
elitism_loop(pop, elites, remaining, elite_count, min_distance) ==
    IF Len(elites) < elite_count /\ remaining # <<>>
    THEN LET idx == best_candidate_idx(pop, remaining, elites, min_distance)
         IN  elitism_loop(pop, Append(elites, remaining[idx + 1]),
                          RemoveAt(remaining, idx), elite_count, min_distance)
    ELSE elites

\* diverse_elitism(population, elite_count, min_distance): the positions of
\* the elites in the population, in the order of the Vec returned.
diverse_elitism(pop, elite_count, min_distance) ==
    IF pop = <<>> THEN <<>>
    ELSE LET remaining == sorted_by_fitness(pop, Len(pop))
         IN  elitism_loop(pop, <<remaining[1]>>, RemoveAt(remaining, 0),
                          elite_count, min_distance)

\* The individuals at the given positions.
IndividualsAt(pop, positions) ==
    [n \in 1..Len(positions) |-> pop[positions[n] + 1]]

\* The sharing function of apply_fitness_sharing.
sharing(distance, sigma) ==
    IF RatLess(distance, sigma)
    THEN RatSub(RatOne, RatDiv(distance, sigma))
    ELSE RatZero

\* niche_count of the individual at position i (0-based): the sum of the
\* sharing function over j = 0 .. n - 1.
RECURSIVE niche_sum(_, _, _, _)
niche_sum(pop, i, sigma, n) ==
    IF n = 0 THEN RatZero
    ELSE RatAdd(niche_sum(pop, i, sigma, n - 1),
                sharing(structural_distance(pop[i + 1].ast, pop[n].ast),
                        sigma))

niche_count(pop, i, sigma) == niche_sum(pop, i, sigma, Len(pop))

\* apply_fitness_sharing(population, sigma): the population afterwards.
\* Only fitness is written and only ast is read, so the order of the outer
\* loop does not matter.
apply_fitness_sharing(pop, sigma) ==
    [i \in 1..Len(pop) |->
        IF RatLess(RatOne, niche_count(pop, i - 1, sigma))
        THEN [pop[i] EXCEPT
                 !.fitness = RatDiv(@, niche_count(pop, i - 1, sigma))]
        ELSE pop[i]]

\* All sequences over `indices` of length exactly n.
SeqsOfLen(indices, n) == {t \in SeqsUpTo(indices, n) : Len(t) = n}

\* fitness + diversity_weight * novelty_score.
tournament_score(ind, diversity_weight) ==
    RatAdd(ind.fitness, RatMul(diversity_weight, ind.novelty_score))

\* Iterator::max_by over the tournament t (the positions drawn, 0-based),
\* from entrant p on: the entrant kept so far is replaced unless it compares
\* Greater, so of several best entrants the last is returned.
RECURSIVE max_by_score(_, _, _, _, _)
max_by_score(pop, t, diversity_weight, p, best) ==
    IF p > Len(t) THEN best
    ELSE max_by_score(pop, t, diversity_weight, p + 1,
             IF RatLess(tournament_score(pop[t[p] + 1], diversity_weight),
                        tournament_score(pop[best + 1], diversity_weight))
             THEN best ELSE t[p])

tournament_winner(pop, t, diversity_weight) ==
    max_by_score(pop, t, diversity_weight, 2, t[1])

\* diverse_tournament_selection(population, tournament_size, w, rng): the
\* positions of the individuals it can return over all draws, or Panicked:
\* gen_range(0..0) panics on an empty population, and max_by(..).unwrap()
\* panics on an empty tournament.
diverse_tournament_selection(pop, tournament_size, diversity_weight) ==
    IF tournament_size = 0 THEN {Panicked}
    ELSE IF pop = <<>> THEN {Panicked}
    ELSE {[kind |-> "position",
           idx |-> tournament_winner(pop, t, diversity_weight)] :
             t \in SeqsOfLen(0..(Len(pop) - 1), tournament_size)}

\* The sum of a sequence of f64.
RatSum(s) == RatSumFirst(s, Len(s))

\* mean and variance (the mean of the squared deviations) of a sequence.
Mean(s) == RatDiv(RatSum(s), RatOfInt(Len(s)))

Variance(s) ==
    LET avg == Mean(s)
        dev(x) == RatSub(x, avg)
    IN  Mean([i \in 1..Len(s) |-> RatMul(dev(s[i]), dev(s[i]))])

\* The pairs (i, j), i < j, of positions below n, in the order of the two
\* nested loops.
PairsInOrder(n) ==
    ConcatRange([i \in 1..n |-> [j \in 1..(n - i) |-> <<i - 1, (i - 1) + j>>]],
                1, n)

\* calculate_population_stats(population).  fitness_std and size_std are
\* the square roots of the variances held here (a square root has no exact
\* rational value).
\* diversity_score of a population that is not empty: the average distance
\* over the pairs, 0.0 when there is no pair.
diversity_score(pop) ==
    LET pairs == PairsInOrder(Len(pop))
        total_distance ==
            RatSum([k \in 1..Len(pairs) |->
                       structural_distance(pop[pairs[k][1] + 1].ast,
                                           pop[pairs[k][2] + 1].ast)])
    IN  IF Len(pairs) > 0
        THEN RatDiv(total_distance, RatOfInt(Len(pairs)))
        ELSE RatZero

calculate_population_stats(pop) ==
    IF pop = <<>>
    THEN [avg_fitness |-> RatZero, fitness_variance |-> RatZero,
          avg_size |-> RatZero, size_variance |-> RatZero,
          diversity_score |-> RatZero, stagnation_count |-> 0]
    ELSE LET fitnesses == [i \in 1..Len(pop) |-> pop[i].fitness]
             sizes     == [i \in 1..Len(pop) |-> RatOfInt(pop[i].size)]
         IN  [avg_fitness |-> Mean(fitnesses),
              fitness_variance |-> Variance(fitnesses),
              avg_size |-> Mean(sizes),
              size_variance |-> Variance(sizes),
              diversity_score |-> diversity_score(pop),
              stagnation_count |-> 0]

\* A faulty variant of pair_removals: the better individual of a close pair
\* is marked.
pair_removals_KeepsWorse(pop, i, j) ==
    IF RatLess(pop[j + 1].fitness, pop[i + 1].fitness) THEN {i}
    ELSE IF RatLess(pop[i + 1].fitness, pop[j + 1].fitness) THEN {j}
    ELSE {i, j}

\* remove_idx for a close pair (i, j): the values it can take (both on a
\* fitness tie, by the draw of rng.gen::<bool>()).
pair_removals(pop, i, j) ==
    IF RatLess(pop[j + 1].fitness, pop[i + 1].fitness) THEN {j}
    ELSE IF RatLess(pop[i + 1].fitness, pop[j + 1].fitness) THEN {i}
    ELSE {i, j}

\* A faulty variant of to_remove_sets: the loops end at the first close
\* pair.
RECURSIVE to_remove_sets_FirstPairOnly(_, _, _, _)
to_remove_sets_FirstPairOnly(pop, min_distance, k, to_remove) ==
    LET pairs == PairsInOrder(Len(pop))
    IN  IF k > Len(pairs) THEN {to_remove}
        ELSE LET i == pairs[k][1]
                 j == pairs[k][2]
             IN  IF RatLess(structural_distance(pop[i + 1].ast, pop[j + 1].ast),
                            min_distance)
                 THEN {to_remove \cup {remove_idx} :
                          remove_idx \in pair_removals(pop, i, j)}
                 ELSE to_remove_sets_FirstPairOnly(pop, min_distance, k + 1,
                                                   to_remove)

\* The two nested loops of enforce_minimum_diversity from the k-th pair on:
\* every to_remove (as a set: it is sorted and deduplicated before use) the
\* loops can end with.
RECURSIVE to_remove_sets(_, _, _, _)
to_remove_sets(pop, min_distance, k, to_remove) ==
    LET pairs == PairsInOrder(Len(pop))
    IN  IF k > Len(pairs) THEN {to_remove}
        ELSE LET i == pairs[k][1]
                 j == pairs[k][2]
             IN  IF RatLess(structural_distance(pop[i + 1].ast, pop[j + 1].ast),
                            min_distance)
                 THEN UNION {to_remove_sets(pop, min_distance, k + 1,
                                            to_remove \cup {remove_idx}) :
                                remove_idx \in pair_removals(pop, i, j)}
                 ELSE to_remove_sets(pop, min_distance, k + 1, to_remove)

\* The elements of a set of numbers in ascending order.
RECURSIVE SortedSeqOf(_)
SortedSeqOf(S) ==
    IF S = {} THEN <<>>
    ELSE LET m == CHOOSE x \in S : \A y \in S : y <= x
         IN  Append(SortedSeqOf(S \ {m}), m)

\* population.remove(idx) for every idx of to_remove, highest first: the
\* individuals at the other positions, in their order.
RECURSIVE remove_all(_, _)
remove_all(pop, to_remove) ==
    IF to_remove = <<>> THEN pop
    ELSE remove_all(RemoveAt(pop, to_remove[Len(to_remove)]),
                    SubSeq(to_remove, 1, Len(to_remove) - 1))

\* enforce_minimum_diversity(population, min_distance, rng): every sorted
\* to_remove it can end with.
enforce_minimum_diversity(pop, min_distance) ==
    {SortedSeqOf(S) : S \in to_remove_sets(pop, min_distance, 1, {})}

(***************************************************************************)
(* Specification SpecPop: each operation of the population manager applied *)
(* once to every population of a bounded length, the empty one included.   *)
(***************************************************************************)
\* Bound: the largest population explored.
MaxPop == 3

\* Bound: the largest tournament_size explored.
MaxTournament == 2

\* ASTs at distances 0, 1/2 and 1 from one another (their literals are
\* small: no i32 difference overflows, whatever the build).
PopAsts == {IntLiteral(1), IntLiteral(2), Sublist(<<IntLiteral(1)>>)}

\* Fitness values: a negative one, and two within 30% of one another.
FitnessInputs == {RatOfInt(-2), RatOfInt(10), RatOfInt(12)}

Individuals ==
    {new_individual(ast, fitness) : ast \in PopAsts, fitness \in FitnessInputs}

PopInputs == SeqsUpTo(Individuals, MaxPop)

\* The min_distance arguments explored: 0.0, 0.01 and 0.75.
MinDistanceInputs == {RatZero, Rat(1, 100), Rat(3, 4)}

\* The sigma arguments explored (sigma > 0): 0.5 and 2.0.
SigmaInputs == {Rat(1, 2), RatOfInt(2)}

\* The diversity_weight arguments explored: 0.0 and 0.3.
WeightInputs == {RatZero, Rat(3, 10)}

InitPop ==
    /\ call = "none"
    /\ tree = NoTree
    /\ outcome = "none"
    /\ TreeIdle /\ EncIdle /\ GenIdle /\ MutIdle
    /\ population \in PopInputs
    /\ prior = <<>>
    /\ returned = NoValue /\ returned_rev = NoValue
    /\ count_arg = 0 /\ real_arg = NoValue /\ selected = <<>>
    /\ overflow_checks = FALSE
    /\ LoopIdle

\* What every operation leaves alone.
PopFrame ==
    UNCHANGED <<tree, treeVars, encVars, genVars, mutVars, returned_rev,
                overflow_checks, loopVars>>

\* age_population(&mut population)
AgePopulation ==
    /\ call = "none"
    /\ call' = "age_population"
    /\ prior' = population
    /\ population' = age_population(population)
    /\ outcome' = "ok"
    /\ UNCHANGED <<returned, count_arg, real_arg, selected>>
    /\ PopFrame

\* returned = calculate_novelty_score(&individual, &population)
CalculateNoveltyScore ==
    /\ call = "none"
    /\ call' = "calculate_novelty_score"
    /\ prior' = population
    /\ \E individual \in PopAsts :
          /\ tree' = individual
          /\ returned' = calculate_novelty_score(individual, population)
    /\ outcome' = IF returned' = Panicked THEN "panic" ELSE "ok"
    /\ UNCHANGED <<population, count_arg, real_arg, selected>>
    /\ UNCHANGED <<treeVars, encVars, genVars, mutVars, returned_rev,
                   overflow_checks, loopVars>>

\* returned = diverse_elitism(&population, elite_count, min_distance)
DiverseElitism ==
    /\ call = "none"
    /\ call' = "diverse_elitism"
    /\ prior' = population
    /\ \E elite_count \in 0..(MaxPop + 1), min_distance \in MinDistanceInputs :
          /\ count_arg' = elite_count
          /\ real_arg' = min_distance
          /\ selected' = diverse_elitism(population, elite_count, min_distance)
    /\ returned' = IndividualsAt(population, selected')
    /\ outcome' = "ok"
    /\ UNCHANGED population
    /\ PopFrame

\* apply_fitness_sharing(&mut population, sigma)
ApplyFitnessSharing ==
    /\ call = "none"
    /\ call' = "apply_fitness_sharing"
    /\ prior' = population
    /\ \E sigma \in SigmaInputs :
          /\ real_arg' = sigma
          /\ population' = apply_fitness_sharing(population, sigma)
    /\ outcome' = "ok"
    /\ UNCHANGED <<returned, count_arg, selected>>
    /\ PopFrame

\* returned = diverse_tournament_selection(&population, tournament_size,
\*                                         diversity_weight, rng)
DiverseTournamentSelection ==
    /\ call = "none"
    /\ call' = "diverse_tournament_selection"
    /\ prior' = population
    /\ \E tournament_size \in 0..MaxTournament,
          diversity_weight \in WeightInputs :
          /\ count_arg' = tournament_size
          /\ real_arg' = diversity_weight
          /\ \E winner \in diverse_tournament_selection(
                               population, tournament_size, diversity_weight) :
                IF winner = Panicked
                THEN /\ outcome' = "panic"
                     /\ UNCHANGED <<returned, selected>>
                ELSE /\ outcome' = "ok"
                     /\ returned' = population[winner.idx + 1]
                     /\ selected' = <<winner.idx>>
    /\ UNCHANGED population
    /\ PopFrame

\* returned = calculate_population_stats(&population)
CalculatePopulationStats ==
    /\ call = "none"
    /\ call' = "calculate_population_stats"
    /\ prior' = population
    /\ returned' = calculate_population_stats(population)
    /\ outcome' = "ok"
    /\ UNCHANGED <<population, count_arg, real_arg, selected>>
    /\ PopFrame

\* enforce_minimum_diversity(&mut population, min_distance, rng)
EnforceMinimumDiversity ==
    /\ call = "none"
    /\ call' = "enforce_minimum_diversity"
    /\ prior' = population
    /\ \E min_distance \in MinDistanceInputs :
          /\ real_arg' = min_distance
          /\ \E to_remove \in enforce_minimum_diversity(population,
                                                        min_distance) :
                /\ selected' = to_remove
                /\ population' = remove_all(population, to_remove)
    /\ outcome' = "ok"
    /\ UNCHANGED <<returned, count_arg>>
    /\ PopFrame

NextPop ==
    \/ AgePopulation
    \/ CalculateNoveltyScore
    \/ DiverseElitism
    \/ ApplyFitnessSharing
    \/ DiverseTournamentSelection
    \/ CalculatePopulationStats
    \/ EnforceMinimumDiversity

SpecPop == InitPop /\ [][NextPop]_vars

(***************************************************************************)
(* Properties of the population manager.  Scores, survivors and niche      *)
(* counts are restated here from the populations before and after.         *)
(***************************************************************************)
PopulationOperations ==
    {"age_population", "calculate_novelty_score", "apply_fitness_sharing",
     "calculate_population_stats", "diverse_elitism",
     "diverse_tournament_selection", "enforce_minimum_diversity"}

\* The fallback each operation has for a population of at most one
\* individual.
TinyFallback ==
    CASE call = "calculate_novelty_score" -> returned = RatOne
      [] call = "diverse_elitism" -> returned = prior
      [] call = "calculate_population_stats" ->
            /\ returned.diversity_score = RatZero
            /\ returned.fitness_variance = RatZero
            /\ (prior = <<>> => returned.avg_fitness = RatZero)
      [] call = "diverse_tournament_selection" -> returned = prior[1]
      [] call = "enforce_minimum_diversity" -> population = prior
      [] call = "apply_fitness_sharing" -> population = prior
      [] call = "age_population" -> Len(population) = Len(prior)

\* C16: no population-manager operation panics on an empty or a
\* single-individual population; each returns its fallback.  (Tournaments
\* of size 0, which have no winner whatever the population, are left out.)
C16_NoPanicOnTinyPopulation ==
    (call \in PopulationOperations /\ Len(prior) <= 1
       /\ (call = "diverse_tournament_selection" => count_arg >= 1)) =>
        (outcome = "ok" /\ TinyFallback)

\* The part of C16 that holds: every operation but tournament selection on
\* an empty population returns its fallback.
TinyPopulationFallbacks ==
    (call \in PopulationOperations /\ Len(prior) <= 1
       /\ (call = "diverse_tournament_selection"
             => (count_arg >= 1 /\ prior # <<>>))) =>
        (outcome = "ok" /\ TinyFallback)

\* fitness + (0.3 * fitness if the individual is at least min_distance from
\* every elite chosen before, else 0).
EliteScore(ind, chosen, min_distance) ==
    IF \A e \in 1..Len(chosen) :
          ~RatLess(structural_distance(ind.ast, chosen[e].ast), min_distance)
    THEN RatMul(ind.fitness, Rat(13, 10))
    ELSE ind.fitness

\* C17: on a non-empty population diverse_elitism returns a list whose first
\* element has the maximum fitness, and each later element is, when it is
\* selected, a not-yet-selected individual of maximal score; no individual
\* (position) is selected twice.
C17_GreedyElites ==
    (call = "diverse_elitism" /\ prior # <<>>) =>
        /\ Len(returned) >= 1
        /\ Len(selected) = Len(returned)
        /\ \A i \in 1..Len(prior) :
              RatLeq(prior[i].fitness, returned[1].fitness)
        /\ \A n \in 1..Len(selected) :
              /\ selected[n] \in 0..(Len(prior) - 1)
              /\ returned[n] = prior[selected[n] + 1]
        /\ \A m, n \in 1..Len(selected) : m # n => selected[m] # selected[n]
        /\ \A n \in 2..Len(selected) :
              \A c \in 0..(Len(prior) - 1) :
                  (\A m \in 1..(n - 1) : selected[m] # c) =>
                      RatLeq(EliteScore(prior[c + 1],
                                        SubSeq(returned, 1, n - 1), real_arg),
                             EliteScore(returned[n],
                                        SubSeq(returned, 1, n - 1), real_arg))

\* C17's case: three elites were taken from three individuals and the
\* diversity bonus put one of lower fitness before one of higher fitness.
C17_Witness ==
    /\ call = "diverse_elitism"
    /\ Len(prior) = 3 /\ Len(returned) = 3
    /\ RatLess(returned[2].fitness, returned[3].fitness)
    /\ returned[3].ast = returned[1].ast

\* C18 as stated: diverse_elitism returns exactly
\* min(elite_count, |population|) individuals for every elite_count >= 0,
\* elite_count = 0 included.
C18_ReturnsMinOfCountAndSize ==
    (call = "diverse_elitism") =>
        Len(returned) = (IF count_arg <= Len(prior) THEN count_arg
                         ELSE Len(prior))

\* C18 as amended: an empty population gives an empty list; otherwise the
\* best individual is always returned, so the list has
\* min(max(elite_count, 1), |population|) individuals.
C18_ReturnsAtLeastTheBest ==
    (call = "diverse_elitism") =>
        Len(returned) =
            (IF prior = <<>> THEN 0
             ELSE LET wanted == IF count_arg >= 1 THEN count_arg ELSE 1
                  IN  IF wanted <= Len(prior) THEN wanted ELSE Len(prior))

\* C18's case: elite_count = 0 on a population of two, one elite returned.
C18_Witness ==
    /\ call = "diverse_elitism"
    /\ count_arg = 0
    /\ Len(prior) = 2
    /\ Len(returned) = 1

\* The individuals of pop at the positions outside `removed`, in order.
Survivors(pop, removed) ==
    IndividualsAt(pop, SortedSeqOf((0..(Len(pop) - 1)) \ removed))

\* C19: enforce_minimum_diversity removes, for every unordered pair closer
\* than min_distance whose fitnesses differ, the lower-fitness member, and
\* leaves the others in place; of two individuals with identical ASTs (and
\* min_distance above 0) it removes exactly one: the lower-fitness one, or
\* either on a tie.
C19_RemovesWorseOfClosePairs ==
    (call = "enforce_minimum_diversity") =>
        LET removed == {selected[n] : n \in 1..Len(selected)}
        IN  /\ removed \subseteq 0..(Len(prior) - 1)
            /\ population = Survivors(prior, removed)
            /\ \A i, j \in 0..(Len(prior) - 1) :
                  (/\ i < j
                   /\ RatLess(structural_distance(prior[i + 1].ast,
                                                  prior[j + 1].ast), real_arg))
                  => /\ RatLess(prior[i + 1].fitness, prior[j + 1].fitness)
                           => i \in removed
                     /\ RatLess(prior[j + 1].fitness, prior[i + 1].fitness)
                           => j \in removed
            /\ (Len(prior) = 2 /\ prior[1].ast = prior[2].ast
                  /\ RatLess(RatZero, real_arg)) =>
                   /\ Len(population) = 1
                   /\ Cardinality(removed) = 1
                   /\ RatLess(prior[1].fitness, prior[2].fitness)
                         => population = <<prior[2]>>
                   /\ RatLess(prior[2].fitness, prior[1].fitness)
                         => population = <<prior[1]>>

\* C19's case: two individuals with the same AST, the first of lower
\* fitness, min_distance = 0.01: the first was removed and the second kept.
C19_Witness ==
    /\ call = "enforce_minimum_diversity"
    /\ real_arg = Rat(1, 100)
    /\ Len(prior) = 2
    /\ prior[1].ast = prior[2].ast
    /\ RatLess(prior[1].fitness, prior[2].fitness)
    /\ selected = <<0>>
    /\ population = <<prior[2]>>

\* The niche count of the individual at position i (1-based), restated: the
\* sum over the whole population of max(0, 1 - distance / sigma).
NicheCount(pop, i, sigma) ==
    RatSum([j \in 1..Len(pop) |->
               LET dist == structural_distance(pop[i].ast, pop[j].ast)
               IN  IF RatLess(dist, sigma)
                   THEN RatSub(RatOne, RatDiv(dist, sigma))
                   ELSE RatZero])

\* C20: apply_fitness_sharing never raises an individual's fitness, whatever
\* its sign: the fitness stored afterwards is at most the fitness stored
\* before, and is unchanged when the niche count is not above 1.
C20_SharingNeverRaisesFitness ==
    (call = "apply_fitness_sharing") =>
        /\ Len(population) = Len(prior)
        /\ \A i \in 1..Len(prior) :
              /\ RatLeq(population[i].fitness, prior[i].fitness)
              /\ RatLeq(NicheCount(prior, i, real_arg), RatOne)
                    => population[i] = prior[i]

\* The part of C20 that holds: a fitness that is not negative is never
\* raised, every fitness in a niche of count above 1 is divided by the
\* count, and nothing but fitness is written.
SharingDividesByNicheCount ==
    (call = "apply_fitness_sharing") =>
        /\ Len(population) = Len(prior)
        /\ \A i \in 1..Len(prior) :
              /\ RatLeq(RatZero, prior[i].fitness)
                    => RatLeq(population[i].fitness, prior[i].fitness)
              /\ RatLeq(RatOne, NicheCount(prior, i, real_arg))
              /\ population[i] =
                    [prior[i] EXCEPT
                        !.fitness =
                            IF RatLess(RatOne, NicheCount(prior, i, real_arg))
                            THEN RatDiv(@, NicheCount(prior, i, real_arg))
                            ELSE @]

\* The clamp of the claim: clamp(n / 4, minimum 5, maximum n - 1).
NeighbourCount(n) ==
    LET quarter == n \div 4
        floor5  == IF quarter >= 5 THEN quarter ELSE 5
    IN  IF floor5 <= n - 1 THEN floor5 ELSE n - 1

\* The average distance from the member at position i (1-based) to its k
\* nearest neighbours among the other members of pop.
NoveltyAmongPeers(pop, i) ==
    LET peers == SubSeq(pop, 1, i - 1) \o SubSeq(pop, i + 1, Len(pop))
        k     == NeighbourCount(Len(pop))
        distances ==
            sort_ascending([j \in 1..Len(peers) |->
                               structural_distance(pop[i].ast, peers[j].ast)])
    IN  RatDiv(RatSumFirst(distances, k), RatOfInt(k))

\* C21: in a population of at least 2, the novelty score of a member is the
\* average structural distance to its k nearest neighbours among the other
\* members, the member itself not counted, with
\* k = clamp(population_size / 4, minimum 5, maximum population_size - 1).
C21_NoveltyAmongPeers ==
    (call = "calculate_novelty_score" /\ Len(prior) >= 2) =>
        \A i \in 1..Len(prior) :
            prior[i].ast = tree => returned = NoveltyAmongPeers(prior, i)

\* What the code computes for a member: the member is one of the `population`
\* it is compared with, so its own distance 0 is the nearest of the k
\* distances averaged, and with k <= 5 = population_size - 1 the farthest
\* peer is left out.
NoveltyCountsTheMemberItself ==
    (call = "calculate_novelty_score" /\ Len(prior) >= 2) =>
        \A i \in 1..Len(prior) :
            prior[i].ast = tree =>
                LET k == NeighbourCount(Len(prior))
                    distances ==
                        sort_ascending(
                            [j \in 1..Len(prior) |->
                                structural_distance(tree, prior[j].ast)])
                IN  /\ distances[1] = RatZero
                    /\ returned = RatDiv(RatSumFirst(distances, k), RatOfInt(k))
                    /\ RatLeq(returned, NoveltyAmongPeers(prior, i))

\* Whether the true difference of two i32 values is itself an i32 that
\* abs() can take: the larger is at most i32::MAX above the smaller.
DifferenceFits(v1, v2) ==
    LET hi == IF v1 >= v2 THEN v1 ELSE v2
        lo == IF v1 >= v2 THEN v2 ELSE v1
    IN  lo >= 0 \/ hi < 0 \/ hi <= MaxI32 + lo

\* |v1 - v2| / (1 + |v1 - v2|) for a difference that fits.
NormalizedDifference(v1, v2) ==
    LET hi == IF v1 >= v2 THEN v1 ELSE v2
        lo == IF v1 >= v2 THEN v2 ELSE v1
    IN  Rat(hi - lo, 1 + (hi - lo))

\* 0 <= x < 1, by the signs of numerator and denominator (no product).
InUnitInterval(x) ==
    IF x.den > 0 THEN 0 <= x.num /\ x.num < x.den
                 ELSE x.num <= 0 /\ x.num > x.den

\* C22: for every two i32 values v1, v2, also those whose difference does
\* not fit in 32 bits, structural_distance(IntLiteral(v1), IntLiteral(v2))
\* completes without overflow and is |v1-v2| / (1 + |v1-v2|) of the true
\* difference, a value in [0, 1).
C22_LiteralDistanceOnTrueDifference ==
    (call = "structural_distance"
       /\ tree.kind = "IntLiteral" /\ tree_b.kind = "IntLiteral") =>
        /\ outcome = "ok"
        /\ IF outcome = "ok"
           THEN /\ InUnitInterval(returned)
                /\ DifferenceFits(tree.val, tree_b.val)
                      => returned = NormalizedDifference(tree.val, tree_b.val)
           ELSE FALSE

\* The part of C22 that holds: when the true difference fits in an i32 the
\* distance is its normalized magnitude, in [0, 1), in every build; when it
\* does not fit, a build that checks overflow panics and a build that wraps
\* returns a value computed on the wrapped difference.
LiteralDistanceWhenDifferenceFits ==
    (call = "structural_distance"
       /\ tree.kind = "IntLiteral" /\ tree_b.kind = "IntLiteral") =>
        IF DifferenceFits(tree.val, tree_b.val)
        THEN /\ outcome = "ok"
             /\ returned = NormalizedDifference(tree.val, tree_b.val)
             /\ InUnitInterval(returned)
        ELSE IF overflow_checks THEN outcome = "panic"
        ELSE /\ outcome = "ok"
             /\ returned # NormalizedDifference(0, 1)
                   => ~InUnitInterval(returned)

(***************************************************************************)
(* The generation loop of the advanced driver (bin/symreg_advanced.rs,     *)
(* main).  The Executor that runs a program (the EVM interpreter behind    *)
(* runner.run_interpreter) is outside the model: what the loop needs of it *)
(* is that its verdict is a function of the program alone.                 *)
(***************************************************************************)
\* generate_samples(): the inputs x of the samples.
SampleInputs == (-5)..5

\* The verdict of the Executor on a program, the same for every sample:
\* the run fails (evaluate_ast_on_x returns i32::MAX), or the prediction
\* misses the target by `diff`.  A stand-in for the interpreter: one
\* program is exact, literals miss by 1, Sublists by 10, and a bare
\* instruction leaves no result.
executor(ast) ==
    CASE ast.kind = "Instruction" -> [ok |-> FALSE, diff |-> 0]
      [] ast.kind = "IntLiteral" ->
            [ok |-> TRUE, diff |-> IF ast.val = 29 THEN 0 ELSE 1]
      [] OTHER -> [ok |-> TRUE, diff |-> 10]

\* sample_fitness for a prediction that misses by diff.
sample_fitness(diff) ==
    IF diff = 0 THEN RatOfInt(1000)
    ELSE IF diff <= 1 THEN RatDiv(RatOfInt(100), RatOfInt(1 + diff))
    ELSE IF diff <= 10
    THEN RatDiv(RatOfInt(50), RatAdd(RatOne, Rat(diff, 2)))
    ELSE IF diff <= 100
    THEN RatDiv(RatOfInt(20), RatAdd(RatOne, Rat(diff, 10)))
    ELSE RatDiv(RatOfInt(10), RatAdd(RatOne, Rat(diff, 100)))

\* The parsimony factor of evaluate_fitness (its `size_penalty`).
parsimony(s) ==
    IF s > 40 THEN Rat(4, 5)
    ELSE IF s > 25 THEN Rat(9, 10)
    ELSE IF s > 15 THEN Rat(19, 20)
    ELSE RatOne

\* evaluate_fitness(runner, ast, samples).
evaluate_fitness(ast) ==
    LET n     == Cardinality(SampleInputs)
        run   == executor(ast)
        total == IF run.ok
                 THEN RatMul(RatOfInt(n), sample_fitness(run.diff))
                 ELSE RatMul(RatOfInt(n), Rat(1, 10))
        with_bonus == IF run.ok THEN RatMul(total, Rat(6, 5)) ELSE total
    IN  RatMul(RatDiv(with_bonus, RatOfInt(n)),
               parsimony(get_subtree_size(ast)))

\* The value a recursion of shrink_ast that never ends leaves: the stack
\* overflows and the program aborts.
StackOverflow == [kind |-> "StackOverflow"]

\* shrink_ast(ast, rng, target_size): every tree it can return.  An
\* activation whose result equals its argument and is still above the
\* target calls itself with the same argument for ever.
RECURSIVE shrink_ast(_, _)
shrink_ast(ast, target_size) ==
    IF shrink_returns_arg(ast) THEN {ast}
    ELSE UNION {IF get_subtree_size(shrunk) > target_size
                THEN IF shrunk = ast THEN {StackOverflow}
                     ELSE shrink_ast(shrunk, target_size)
                ELSE {shrunk}
                : shrunk \in shrink_results(ast)}

\* size_limited_mutate(original, rng, max_points, max_size): every tree it
\* can return.
size_limited_mutate(original, points_cap, cap) ==
    IF get_subtree_size(original) > cap
    THEN shrink_ast(original, cap)
    ELSE mutate_within_limit(original, points_cap, cap)

\* Bound: the population size of the run (300 in the driver).
pop_size == 3

\* Bound: the number of generations of the run (40 in the driver).
generations == 2

\* max_points and max_size of the run (15 and 30 in the driver), scaled
\* down with the population.
max_points_arg == 1

max_size == 2

\* tournament_size of the run (5 in the driver), scaled down.
tournament_size == 2

\* (pop_size as f64 * elite_ratio) as usize, elite_ratio = 0.15.
elite_count == (pop_size * 15) \div 100

diversity_weight == Rat(3, 10)

sharing_sigma == Rat(1, 2)

min_diversity == Rat(1, 10)

\* Individual::new(ast, evaluate_fitness(ast)) for every ast
\* ranmdom_code_fixed(rng, max_points) can return.
fresh_individuals ==
    {new_individual(ast, evaluate_fitness(ast)) :
        ast \in ranmdom_code_fixed(max_points_arg)}

\* for i in 0..population.len() { population[i].novelty_score = ... }: only
\* the ASTs are read, so the scores already written do not matter.
refresh_novelty(pop) ==
    [i \in 1..Len(pop) |->
        [pop[i] EXCEPT
            !.novelty_score = calculate_novelty_score(pop[i].ast, pop)]]

\* population.sort_by(|a, b| a.fitness.partial_cmp(&b.fitness).unwrap()):
\* the positions of pop (0-based) by ascending fitness; the sort is stable.
RECURSIVE sorted_by_fitness_ascending(_, _)
sorted_by_fitness_ascending(pop, n) ==
    IF n = 0 THEN <<>>
    ELSE LET rest == sorted_by_fitness_ascending(pop, n - 1)
             pos  == Cardinality({i \in 1..Len(rest) :
                        ~RatLess(pop[n].fitness, pop[rest[i] + 1].fitness)})
         IN  SubSeq(rest, 1, pos) \o <<n - 1>> \o SubSeq(rest, pos + 1, Len(rest))

\* Step (a) of a generation, up to the sort: the population it leaves.
shared_and_sorted(pop) ==
    LET shared == apply_fitness_sharing(refresh_novelty(age_population(pop)),
                                        sharing_sigma)
    IN  IndividualsAt(shared, sorted_by_fitness(shared, Len(shared)))

\* stagnation_count after the best fitness of a generation is known.
track_stagnation(history, count, best_fitness) ==
    IF history = <<>> THEN count
    ELSE LET last_best == history[Len(history)]
             fitness_diff ==
                 IF RatLess(best_fitness, last_best)
                 THEN RatSub(last_best, best_fitness)
                 ELSE RatSub(best_fitness, last_best)
         IN  IF RatLess(fitness_diff, RatOne) THEN count + 1 ELSE 0

\* The adaptive step that ends a generation: when diversity is low and the
\* run stagnates, the population is sorted by ascending fitness and its
\* first pop_size / 10 individuals are replaced by the fresh ones given.
inject_random(pop, fresh) ==
    LET sorted == IndividualsAt(pop, sorted_by_fitness_ascending(pop, Len(pop)))
    IN  [i \in 1..Len(sorted) |->
            IF i <= Len(fresh) THEN fresh[i] ELSE sorted[i]]

(***************************************************************************)
(* Specification SpecLoop: the generation loop on a small population.      *)
(* `call` is the position in the loop body: "loop" at the top of the for   *)
(* loop, "reproduce" in the while loop that fills new_population,          *)
(* "stopped" after the early break, "aborted" after a panic.               *)
(***************************************************************************)
\* The individuals the initial populations explored are drawn from: those
\* of fresh_individuals with one literal and one instruction as programs.
initial_individuals ==
    {ind \in fresh_individuals :
        ind.ast \in {IntLiteral(-30), Instruction("Noop")}}

InitLoop ==
    /\ call = "loop"
    /\ tree = NoTree
    /\ outcome = "none"
    /\ TreeIdle /\ EncIdle /\ GenIdle /\ MutIdle
    /\ overflow_checks = FALSE
    /\ population \in {refresh_novelty(pop) :
                          pop \in SeqsOfLen(initial_individuals, pop_size)}
    /\ prior = <<>>
    /\ returned = NoValue /\ returned_rev = NoValue
    /\ count_arg = 0 /\ real_arg = NoValue /\ selected = <<>>
    /\ LoopIdle

LoopFrame ==
    UNCHANGED <<tree, treeVars, encVars, genVars, mutVars, returned_rev,
                count_arg, real_arg, overflow_checks>>

\* One pass from the top of the loop body to the elites: ageing, novelty
\* refresh, fitness sharing, statistics, the sort, stagnation tracking, the
\* early break, and diverse elitism.  Of the statistics the loop reads only
\* diversity_score (the others are printed): `returned` keeps it.  `prior`
\* keeps the population the generation started with.
StartGeneration ==
    /\ call = "loop"
    /\ gen < generations
    /\ population # <<>>
    /\ prior' = population
    /\ LET shared == apply_fitness_sharing(
                         refresh_novelty(age_population(population)),
                         sharing_sigma)
           sorted == shared_and_sorted(population)
           best_fitness == sorted[1].fitness
       IN  /\ returned' = diversity_score(shared)
           /\ population' = sorted
           /\ stagnation_count' =
                  track_stagnation(best_fitness_history, stagnation_count,
                                   best_fitness)
           /\ best_fitness_history' = Append(best_fitness_history, best_fitness)
           /\ IF RatLess(RatOfInt(900), best_fitness)
              THEN /\ call' = "stopped"
                   /\ outcome' = "ok"
                   /\ new_population' = <<>>
                   /\ selected' = <<>>
              ELSE /\ call' = "reproduce"
                   /\ outcome' = "none"
                   /\ selected' = diverse_elitism(sorted, elite_count,
                                                  min_diversity)
                   /\ new_population' = IndividualsAt(sorted, selected')
    /\ UNCHANGED gen
    /\ LoopFrame

\* Vec::truncate(len): no effect on a Vec that is not longer than len.
truncate(v, len) == IF Len(v) > len THEN SubSeq(v, 1, len) ELSE v

\* A faulty variant of refill_count: the refill is left out.
refill_count_None(len) == 0

\* The number of iterations of `while new_population.len() < pop_size` from
\* a new_population of length len.
refill_count(len) == IF len < pop_size THEN pop_size - len ELSE 0

\* new_population after pushing the children given, the second only while
\* there is room.
push_children(pop, child1, child2) ==
    IF Len(pop) + 1 < pop_size
    THEN pop \o <<new_individual(child1, evaluate_fitness(child1)),
                  new_individual(child2, evaluate_fitness(child2))>>
    ELSE Append(pop, new_individual(child1, evaluate_fitness(child1)))

\* One iteration of the while loop that takes the crossover branch.
ReproduceByCrossover ==
    /\ call = "reproduce"
    /\ Len(new_population) < pop_size
    /\ \E parent1, parent2 \in
              diverse_tournament_selection(population, tournament_size,
                                           diversity_weight) :
          IF parent1 = Panicked \/ parent2 = Panicked
          THEN /\ call' = "aborted" /\ outcome' = "panic"
               /\ UNCHANGED new_population
          ELSE \E pr \in crossover_pairs(population[parent1.idx + 1].ast,
                                         population[parent2.idx + 1].ast) :
                  LET children ==
                          swap_subtrees(population[parent1.idx + 1].ast,
                                        population[parent2.idx + 1].ast,
                                        pr[1], pr[2])
                  IN  IF children[1] = Panicked \/ children[2] = Panicked
                      THEN /\ call' = "aborted" /\ outcome' = "panic"
                           /\ UNCHANGED new_population
                      ELSE /\ new_population' =
                                  push_children(new_population, children[1],
                                                children[2])
                           /\ UNCHANGED <<call, outcome>>
    /\ UNCHANGED <<population, prior, returned, selected, gen,
                   stagnation_count, best_fitness_history>>
    /\ LoopFrame

\* One iteration of the while loop that takes the mutation branch: point
\* mutation at rate 0.15 or size-limited mutation.
ReproduceByMutation ==
    /\ call = "reproduce"
    /\ Len(new_population) < pop_size
    /\ \E parent1 \in
              diverse_tournament_selection(population, tournament_size,
                                           diversity_weight) :
          IF parent1 = Panicked
          THEN /\ call' = "aborted" /\ outcome' = "panic"
               /\ UNCHANGED new_population
          ELSE \E mutated_ast \in
                      point_mutate(population[parent1.idx + 1].ast, 15)
                      \cup size_limited_mutate(
                               population[parent1.idx + 1].ast,
                               max_points_arg, max_size) :
                  IF mutated_ast = Panicked
                  THEN /\ call' = "aborted" /\ outcome' = "panic"
                       /\ UNCHANGED new_population
                  ELSE IF mutated_ast = StackOverflow
                  THEN /\ call' = "aborted" /\ outcome' = "stack_overflow"
                       /\ UNCHANGED new_population
                  ELSE /\ new_population' =
                              Append(new_population,
                                     new_individual(mutated_ast,
                                         evaluate_fitness(mutated_ast)))
                       /\ UNCHANGED <<call, outcome>>
    /\ UNCHANGED <<population, prior, returned, selected, gen,
                   stagnation_count, best_fitness_history>>
    /\ LoopFrame

\* Step (c) and the end of the loop body: diversity enforcement, the refill
\* with fresh random individuals, the truncation, the assignment to
\* population and the adaptive injection.  `selected` keeps to_remove.
FinishGeneration ==
    /\ call = "reproduce"
    /\ Len(new_population) >= pop_size
    /\ \E to_remove \in enforce_minimum_diversity(new_population,
                                                  min_diversity) :
          LET kept    == remove_all(new_population, to_remove)
              missing == refill_count(Len(kept))
          IN  /\ selected' = to_remove
              /\ \E refill \in SeqsOfLen(fresh_individuals, missing) :
                    LET filled    == kept \o refill
                        truncated == truncate(filled, pop_size)
                    IN  IF RatLess(returned, Rat(1, 5))
                           /\ stagnation_count > 3
                        THEN \E fresh \in SeqsOfLen(fresh_individuals,
                                                    pop_size \div 10) :
                                population' = inject_random(truncated, fresh)
                        ELSE population' = truncated
    /\ new_population' = <<>>
    /\ gen' = gen + 1
    /\ call' = "loop"
    /\ outcome' = "ok"
    /\ UNCHANGED <<prior, returned, stagnation_count, best_fitness_history>>
    /\ LoopFrame

NextLoop ==
    \/ StartGeneration
    \/ ReproduceByCrossover
    \/ ReproduceByMutation
    \/ FinishGeneration

SpecLoop == InitLoop /\ [][NextLoop]_vars

(***************************************************************************)
(* Properties of the generation loop.                                      *)
(***************************************************************************)
\* C23: the fitness-sharing discount lasts only for the generation in which
\* it is applied: at the top of every later generation, where the sharing
\* step is about to run, each individual of the population (an elite carried
\* over included) holds its raw evaluated fitness, so no stored fitness is
\* ever discounted twice.
C23_SharingDiscountLastsOneGeneration ==
    (call = "loop" /\ gen >= 1) =>
        \A i \in 1..Len(population) :
            population[i].fitness = evaluate_fitness(population[i].ast)

\* What holds instead: the individuals created in the generation just ended
\* (age 0) hold their raw fitness, and an individual carried over by elitism
\* holds the fitness the sharing step left it with, which is not re-evaluated
\* and is discounted again by the next sharing step.
CarriedElitesKeepSharedFitness ==
    (call = "loop" /\ gen >= 1) =>
        LET shared == shared_and_sorted(prior)
        IN  \A i \in 1..Len(population) :
                IF population[i].age = 0
                THEN population[i].fitness =
                         evaluate_fitness(population[i].ast)
                ELSE /\ \E k \in 1..Len(shared) : population[i] = shared[k]
                     /\ RatLeq(population[i].fitness,
                               evaluate_fitness(population[i].ast))

\* C24: the population holds exactly pop_size individuals at the start of
\* every generation (and while the generation runs): after elitism,
\* reproduction, diversity enforcement, the refill and the truncation the
\* size is pop_size again.
C24_PopulationSizeIsFixed ==
    /\ Len(population) = pop_size
    /\ Len(new_population) <= pop_size

\* C24's case: a generation has ended in which diversity enforcement removed
\* an individual and the refill brought a fresh one in its place, next to
\* the elite carried over.
C24_Witness ==
    /\ call = "loop"
    /\ gen >= 1
    /\ selected # <<>>
    /\ Len(population) = pop_size
    /\ population[1].age > 0
    /\ population[pop_size].age = 0
    /\ population[pop_size] \in fresh_individuals

(***************************************************************************)
(* Properties of size-limited mutation, point mutation and the two         *)
(* crossovers.                                                             *)
(***************************************************************************)
\* The number of Sublist nodes of a tree.
RECURSIVE SublistNodes(_)
SublistNodes(t) ==
    IF t.kind = "Sublist"
    THEN 1 + SumSeq([i \in 1..Len(t.children) |-> SublistNodes(t.children[i])])
    ELSE 0

\* C25: size_limited_mutate enforces its cap: for every input tree of at
\* most max_size nodes and every sequence of random choices, the returned
\* tree has at most max_size nodes, be it the accepted subtree-swap result
\* or the point-mutation fallback.
C25_ResultWithinCap ==
    (call = "size_limited_mutate" /\ outcome = "ok") =>
        get_subtree_size(result) <= size_cap

\* C25 as the code has it: a result above the cap is a point mutation (at
\* rate 0.1) of the original, and has at most one node more than the
\* original for each Sublist node of the original; every other result is
\* within the cap.
C25_FallbackMayExceedCap ==
    (call = "size_limited_mutate" /\ outcome = "ok") =>
        \/ get_subtree_size(result) <= size_cap
        \/ /\ result \in point_mutate(tree, 10)
           /\ get_subtree_size(result)
                 <= get_subtree_size(tree) + SublistNodes(tree)

\* C25's case: a tree exactly at the cap, whose fallback point mutation
\* inserted a child: the result is one node above the cap.
C25_Witness ==
    /\ call = "size_limited_mutate"
    /\ outcome = "ok"
    /\ get_subtree_size(tree) = size_cap
    /\ tree.kind = "Sublist"
    /\ result.kind = "Sublist"
    /\ Len(result.children) = Len(tree.children) + 1
    /\ get_subtree_size(result) = size_cap + 1

\* Whether r can come from a by changes that keep every leaf a leaf of its
\* kind and give every Sublist node the same children, one inserted leaf
\* more, or (of more than one child) one child less.
RECURSIVE WithinOneChild(_, _)
WithinOneChild(a, r) ==
    IF a.kind # "Sublist" THEN r.kind = a.kind
    ELSE IF r.kind # "Sublist" THEN FALSE
    ELSE LET n == Len(a.children)
             m == Len(r.children)
         IN  \/ /\ m = n
                /\ \A i \in 1..n : WithinOneChild(a.children[i], r.children[i])
             \/ /\ m = n + 1
                /\ \E k \in 1..m :
                      /\ r.children[k].kind # "Sublist"
                      /\ \A i \in 1..n :
                            WithinOneChild(a.children[i],
                                           RemoveAt(r.children, k - 1)[i])
             \/ /\ m = n - 1
                /\ n > 1
                /\ \E k \in 1..n :
                      \A i \in 1..m :
                          WithinOneChild(RemoveAt(a.children, k - 1)[i],
                                         r.children[i])

\* C26: at any rate, every Sublist node point_mutate visits keeps its number
\* of direct children up to one (one leaf inserted, or one child deleted),
\* and a Sublist with one child or none never loses a child: a non-empty
\* Sublist never becomes empty.
C26_ChildCountWithinOne ==
    (call = "point_mutate") =>
        /\ WithinOneChild(tree, result)
        /\ (tree.kind = "Sublist" /\ tree.children # <<>>) =>
              result.children # <<>>

\* C26's case: at rate 1.0, a Sublist whose only child is a Sublist with one
\* child: the outer one got a leaf inserted, the inner one kept its child.
C26_Witness ==
    /\ call = "point_mutate"
    /\ rate = 100
    /\ tree.kind = "Sublist" /\ Len(tree.children) = 1
    /\ tree.children[1].kind = "Sublist"
    /\ Len(tree.children[1].children) = 1
    /\ result.kind = "Sublist" /\ Len(result.children) = 2
    /\ \E k \in 1..2 :
          /\ result.children[k].kind = "Sublist"
          /\ Len(result.children[k].children) = 1

\* C27: basic crossover does not conserve size: there are parents a, b and
\* node choices for which the node counts of the two children of
\* crossover_by_index do not add up to the node counts of the two parents.
\* The parents are those of the run and every other pair within the bounds.
C27_SomeCrossoverChangesTotalSize ==
    \E a \in CrossInputsA \cup {tree}, b \in CrossInputsB \cup {tree_b} :
        \E pr \in crossover_by_index_pairs(a, b) :
            LET children == swap_subtrees(a, b, pr[1], pr[2])
            IN  get_subtree_size(children[1]) + get_subtree_size(children[2])
                   # get_subtree_size(a) + get_subtree_size(b)

\* C27 as the code has it: the two subtrees change places, so for all
\* parents and all node choices the node counts of the two children add up
\* to those of the two parents; each child differs from its parent by the
\* difference of the two subtrees swapped.
C27_TotalSizeConserved ==
    (call = "crossover_by_index") =>
        /\ outcome = "ok"
        /\ get_subtree_size(result) + get_subtree_size(result_b)
              = get_subtree_size(tree) + get_subtree_size(tree_b)
        /\ get_subtree_size(result)
              = (get_subtree_size(tree) - SizeOfNode(tree, chosen_pair[1]))
                   + SizeOfNode(tree_b, chosen_pair[2])

\* C27's case: subtrees of different sizes below the roots were swapped, and
\* the first child is larger than its parent.
C27_Witness ==
    /\ call = "crossover_by_index"
    /\ chosen_pair[1] > 0 /\ chosen_pair[2] > 0
    /\ SizeOfNode(tree, chosen_pair[1]) < SizeOfNode(tree_b, chosen_pair[2])
    /\ get_subtree_size(result) > get_subtree_size(tree)
    /\ get_subtree_size(result_b) < get_subtree_size(tree_b)

\* C28: size_aware_crossover always swaps two subtrees with equal node
\* counts (the random fallback is never taken), so each child has exactly
\* the node count of the parent it was built from.
C28_EqualSizeSwap ==
    (call = "size_aware_crossover") =>
        /\ outcome = "ok"
        /\ best_pair_scan(subtree_sizes(tree), subtree_sizes(tree_b), 0,
                          NoPair) = chosen_pair
        /\ SizeOfNode(tree, chosen_pair[1]) = SizeOfNode(tree_b, chosen_pair[2])
        /\ get_subtree_size(result) = get_subtree_size(tree)
        /\ get_subtree_size(result_b) = get_subtree_size(tree_b)

\* C28's case: two parents of different node counts, neither a leaf, and a
\* swap that changed the first parent and left its node count as it was.
C28_Witness ==
    /\ call = "size_aware_crossover"
    /\ get_subtree_size(tree) # get_subtree_size(tree_b)
    /\ get_subtree_size(tree) > 1 /\ get_subtree_size(tree_b) > 1
    /\ result # tree
    /\ get_subtree_size(result) = get_subtree_size(tree)

\* C29: after enforce_minimum_diversity(population, min_distance) every two
\* individuals left in the population have structural distance of at least
\* min_distance, and the population is the original with some positions
\* taken out: the survivors are in their original order, with every field as
\* it was.
C29_SurvivorsAreApart ==
    (call = "enforce_minimum_diversity") =>
        /\ \A i, j \in 1..Len(population) :
              (i < j) =>
                  RatLeq(real_arg, structural_distance(population[i].ast,
                                                       population[j].ast))
        /\ \E removed \in SUBSET (0..(Len(prior) - 1)) :
              population = Survivors(prior, removed)

\* C29's case: three individuals, min_distance = 0.75, and two survivors at
\* distance 1.0, the first and the last of the original.
C29_Witness ==
    /\ call = "enforce_minimum_diversity"
    /\ real_arg = Rat(3, 4)
    /\ Len(prior) = 3
    /\ selected = <<1>>
    /\ population = <<prior[1], prior[3]>>
    /\ structural_distance(prior[1].ast, prior[3].ast) = RatOne

\* C30: enforce_minimum_diversity never empties a non-empty population:
\* whatever min_distance and whatever the draws on fitness ties, at least one
\* individual is left.
C30_NeverEmptiesPopulation ==
    (call = "enforce_minimum_diversity" /\ prior # <<>>) => population # <<>>

=============================================================================
